---- MODULE Spec2Model ----
(***************************************************************************)
(* A model of the declarative-region analyzer of vhdl_lang:                *)
(*   - analyze_declarative_part / analyze_type_declaration /               *)
(*     analyze_declaration                     (analysis/declarative.rs)   *)
(*   - the expression typer and operator disambiguation                    *)
(*                                             (analysis/expression.rs)    *)
(*   - generic package instantiation           (analysis/package_instance.rs) *)
(*   - sequential statements                   (analysis/sequential.rs)    *)
(* Entities live in an arena (a sequence, the id is the index); a region   *)
(* is the insertion-ordered list of the ids added to it; positions are     *)
(* declaration indices; an absent id or position is written 0.             *)
(***************************************************************************)
EXTENDS Integers, Sequences, FiniteSets, TLC

\* ---------------------------------------------------------------- bounds
MaxDecls == 3
MaxCands == 3
MaxCalls == 2
MaxNested == 2
MaxMembers == 3

\* ------------------------------------------------------------- variables
VARIABLES
    declarations,      \* the declarative part under analysis (input)
    idx,               \* loop index i of analyze_declarative_part (next to visit)
    arena,             \* Seq of entities; id = index
    region,            \* ids added to the scope's innermost region, in order
    incomplete_types,  \* symbol -> [ent, pos]  (ent = 0: vacant)
    diagnostics,       \* Seq of diagnostics pushed to the sink
    refs,              \* per declaration: its AST reference slot [value, writes]
    visited,           \* indices of the declarations analysed, in order
    status,            \* "running" | "ok" | "fatal"; "typing", "matching" for the typer
    expr,              \* the expression tree under analysis (input)
    calls,             \* number of typings of expr done so far
    typed,             \* log of expr_pos_with_ttyp entries: [expr, ttyp]
    last,              \* the last call made and its arguments
    result,            \* what the last call returned
    disamb,            \* what disambiguate_op returned for the root operator
    events,            \* log of the regions created, the adds to them and their closes
    mapping,           \* generic map of the instantiation: generic type id -> actual type id
    members,           \* the non-generic members of the uninstantiated package, in order
    inst_idx,          \* position in `members` of the next member to instantiate
    unit,              \* the package instantiation: name analysis outcome, generic map
    sroot              \* the sequential root a return statement is analysed under

declVars == <<declarations, idx, arena, region, incomplete_types,
              diagnostics, refs, visited, status, events>>
opVars == <<expr, calls, typed, last, result, disamb, sroot>>
instVars == <<mapping, members, inst_idx, unit>>

\* ------------------------------------------------------- entities, kinds
Names == {"t", "u"}

TypeKind(t)          == [k |-> "Type", t |-> t]
IncompleteKind       == TypeKind("Incomplete")
SubtypeOf(t, tm)     == [k |-> "Type", t |-> t, subtype |-> tm]
ArrayKind(ix, el)    == [k |-> "Type", t |-> "Array", indexes |-> ix, elem_type |-> el]
EnumKind(lits)       == [k |-> "Type", t |-> "Enum", lits |-> lits]
RecordKind(elems)    == [k |-> "Type", t |-> "Record", elems |-> elems]
ProtectedKind(r, bp) == [k |-> "Type", t |-> "Protected", region |-> r, body_pos |-> bp]
ObjectKind(st)       == [k |-> "Object", subtype |-> st]
ElementKind(st)      == [k |-> "ElementDeclaration", subtype |-> st]
FileKind(st)         == [k |-> "File", subtype |-> st]
InterfaceFileKind(typ) == [k |-> "InterfaceFile", typ |-> typ]
PhysLitKind(typ)     == [k |-> "PhysicalLiteral", typ |-> typ]
LabelKind            == [k |-> "Label"]
LoopParameterKind(typ) == [k |-> "LoopParameter", typ |-> typ]
ComponentKind(r)     == [k |-> "Component", region |-> r]
DesignKind(d, r)     == [k |-> "Design", d |-> d, region |-> r]
OverloadedKind(o, formals, ret) ==
    [k |-> "Overloaded", o |-> o, formals |-> formals, ret |-> ret]

AnyEnt(des, kind, pos, rel, of) ==
    [des |-> des, kind |-> kind, pos |-> pos, rel |-> rel, of |-> of,
     implicits |-> <<>>]

\* The predefined types every analysis starts from.
IntegerId == 1
BooleanId == 2
StdArena ==
    << AnyEnt("integer", TypeKind("Integer"), 0, "None", 0),
       AnyEnt("boolean", EnumKind(<<"false", "true">>), 0, "None", 0) >>

IsType(ar, id)         == ar[id].kind.k = "Type"
IsOverloaded(ar, id)   == ar[id].kind.k = "Overloaded"

\* TypeEnt::base_type: peel Subtype and Alias down to the defining type.
RECURSIVE base_type(_, _)
base_type(ar, id) ==
    IF ar[id].kind.k = "Type" /\ ar[id].kind.t = "Subtype"
        THEN base_type(ar, ar[id].kind.subtype)
    ELSE IF ar[id].kind.k = "Type" /\ ar[id].kind.t = "Alias"
        THEN base_type(ar, ar[id].kind.typ)
    ELSE id

\* The type mark of an interface (formal) entity.
type_mark(ar, id) == ar[id].kind.subtype

\* Signature::key: base-type ids of the formals and of the return type.
SignatureKey(ar, id) ==
    [params |-> [i \in 1..Len(ar[id].kind.formals) |->
                    base_type(ar, type_mark(ar, ar[id].kind.formals[i]))],
     ret    |-> IF ar[id].kind.ret = 0 THEN 0 ELSE base_type(ar, ar[id].kind.ret)]

\* ------------------------------------------------------------ diagnostics
Diag(msg, pos, related) == [msg |-> msg, pos |-> pos, related |-> related]
duplicate_error(pos, prev) == Diag("Duplicate declaration", pos, prev)

\* --------------------------------------------------- analysis state record
\* The operators below thread a record s = [arena, region, diags, refs, events]
\* through the statements of one handler.
Push(s, d)  == [s EXCEPT !.diags = Append(@, d)]
Alloc(s, e) == [s EXCEPT !.arena = Append(@, e)]
LastId(s)   == Len(s.arena)

\* Arena::add_implicit(parent, child)
add_implicit(s, parent, child) ==
    [s EXCEPT !.arena[parent].implicits = Append(@, child)]

\* set_unique_reference on the reference slot of declaration i
set_unique_reference(s, i, id) ==
    [s EXCEPT !.refs[i] = [value |-> id, writes |-> @.writes + 1]]

\* ----------------------------------------------------------------- region
SameDesignator(ar, reg, id) ==
    { j \in 1..Len(reg) : ar[reg[j]].des = ar[id].des }

\* Region::add: the region after the add, or the position of the entity the
\* incoming one collides with.
RegionAdd(ar, reg, id) ==
    LET same == SameDesignator(ar, reg, id) IN
    IF same = {} THEN [ok |-> TRUE, region |-> Append(reg, id), prev |-> 0]
    ELSE IF \E j \in same : reg[j] = id
        \* updated definition of an entity already in the region
        THEN [ok |-> TRUE, region |-> reg, prev |-> 0]
    ELSE IF IsOverloaded(ar, id) /\ \A j \in same : IsOverloaded(ar, reg[j])
        THEN LET dup == { j \in same : SignatureKey(ar, reg[j]) = SignatureKey(ar, id) } IN
             IF dup = {} THEN [ok |-> TRUE, region |-> Append(reg, id), prev |-> 0]
             ELSE [ok |-> FALSE, region |-> reg,
                   prev |-> ar[reg[CHOOSE j \in dup : TRUE]].pos]
    ELSE [ok |-> FALSE, region |-> reg,
          prev |-> ar[reg[CHOOSE j \in same : \A k \in same : j <= k]].pos]

\* ---------------------------------------------------------- region events
\* Every region created, every add to a region (with the entity offered and its
\* declaration position) and every close is logged.
\* Region 0 is the region of the scope the analysis was given; the regions
\* created during the analysis are numbered from 1 in the order of creation.
Event(ev, r, ent, pos, ok, sink, owner) ==
    [ev |-> ev, region |-> r, ent |-> ent, pos |-> pos, ok |-> ok, sink |-> sink,
     owner |-> owner]
Log(s, e) == [s EXCEPT !.events = Append(@, e)]

NumRegions(evs) == Cardinality({ k \in 1..Len(evs) : evs[k].ev = "nested" })

\* Scope::nested, Region::default: a fresh empty region, for the handler `owner`
nested(s, owner) ==
    Log(s, Event("nested", NumRegions(s.events) + 1, 0, 0, TRUE, "-", owner))

\* Scope::close, Region::close
close(s, rid) == Log(s, Event("close", rid, 0, 0, TRUE, "-", "-"))

\* The ids of a set in ascending order (entities in the order of declaration).
RECURSIVE InOrder(_)
InOrder(S) ==
    IF S = {} THEN <<>>
    ELSE <<CHOOSE x \in S : \A y \in S : x <= y>>
         \o InOrder(S \ {CHOOSE x \in S : \A y \in S : x <= y})

\* The events by which region rid took a new entity in.
Accepted(evs, rid) ==
    { k \in 1..Len(evs) :
        /\ evs[k].ev = "add" /\ evs[k].region = rid /\ evs[k].ok
        /\ \A j \in 1..(k - 1) :
              ~(evs[j].ev = "add" /\ evs[j].region = rid /\ evs[j].ok
                /\ evs[j].ent = evs[k].ent) }

\* Scope::into_region: the entities of region rid in the order they were added
into_region(evs, rid) ==
    [n \in 1..Cardinality(Accepted(evs, rid)) |-> evs[InOrder(Accepted(evs, rid))[n]].ent]

\* Scope::add / Region::add on the region rid created during the analysis;
\* the sink is the caller's diagnostics or NullDiagnostics.
NestedAdd(s, rid, id, sink) ==
    LET r  == RegionAdd(s.arena, into_region(s.events, rid), id)
        s1 == Log(s, Event("add", rid, id, s.arena[id].pos, r.ok, sink, "-"))
    IN  IF r.ok \/ sink = "null" THEN s1
        ELSE Push(s1, duplicate_error(s.arena[id].pos, r.prev))

\* Scope::add on the region of the scope given, reporting to the sink.
ScopeAdd(s, id) ==
    LET r  == RegionAdd(s.arena, s.region, id)
        s1 == Log(s, Event("add", 0, id, s.arena[id].pos, r.ok, "diagnostics", "-"))
    IN  IF r.ok THEN [s1 EXCEPT !.region = r.region]
        ELSE Push(s1, duplicate_error(s.arena[id].pos, r.prev))

\* Scope::lookup_immediate: the entities of the innermost region with a designator.
lookup_immediate(ar, reg, des) ==
    { reg[j] : j \in { j \in 1..Len(reg) : ar[reg[j]].des = des } }


\* No expression is being typed.
OpIdle ==
    /\ expr = <<>>
    /\ sroot = <<>>
    /\ calls = 0
    /\ typed = <<>>
    /\ last = <<>>
    /\ result = <<>>
    /\ disamb = <<>>

\* No package is being instantiated.
InstIdle ==
    /\ mapping = <<>>
    /\ members = <<>>
    /\ inst_idx = 0
    /\ unit = <<>>

\* ------------------------------------------------ declarations (the input)
\* res is the outcome of the name/subtype/range resolution the declaration
\* needs (done by collaborators): "ok", "err" (a diagnostic, EvalError::Unknown
\* or AnalysisError::NotFatal) or "fatal" (AnalysisError::Fatal).
\* items are the names of the record elements, of the member subprograms of a
\* protected type, of the formals of a subprogram or of the ports of a
\* component; decls the names of the objects a subprogram body or the body of
\* a protected type declares and stmts the statements of a subprogram body.
DeclWith(d, name, def, res, items, decls, stmts) ==
    [d |-> d, name |-> name, def |-> def, res |-> res,
     items |-> items, decls |-> decls, stmts |-> stmts]
Decl(d, name, def, res) ==
    DeclWith(d, name, def, res,
             IF def = "Record" THEN <<"f">> ELSE IF def = "Protected" THEN <<"get">> ELSE <<>>,
             <<>>, <<>>)
TypeDecl(name, def, res) == Decl("Type", name, def, res)
ObjectDecl(name, res)    == Decl("Object", name, "-", res)
\* a protected type body that declares the objects decls
BodyDecl(name, decls, res) == DeclWith("Type", name, "ProtectedBody", res, <<>>, decls, <<>>)

FullDefs == {"Enumeration", "Record", "Access", "Array", "Subtype",
             "Physical", "Numeric", "File", "Protected"}

DeclPool ==
    { TypeDecl(n, "Incomplete", "ok") : n \in Names }
    \cup { TypeDecl("t", def, "ok") : def \in FullDefs }
    \cup { TypeDecl("t", def, "err") : def \in {"Access", "Array", "Subtype", "Numeric"} }
    \cup { TypeDecl("t", "Physical", "fatal"), TypeDecl("u", "File", "fatal"),
           BodyDecl("t", <<"x">>, "ok"), TypeDecl("u", "Numeric", "ok"),
           TypeDecl("u", "Enumeration", "ok"),
           ObjectDecl("t", "ok"), ObjectDecl("u", "err"), ObjectDecl("u", "fatal") }

\* err.add_to(diagnostics) of a non-fatal resolution error at declaration i
ResolveError(i) == Diag("Resolution error", i, 0)

\* ---------------------------------------------------------------- arena
\* TypeEnt::define_with_opt_id: with an overwrite id the entity of that id is
\* redefined in place, otherwise a new entity is allocated.
DefinedId(s, overwrite_id) ==
    IF overwrite_id # 0 THEN overwrite_id ELSE Len(s.arena) + 1

\* WithDecl::decl of the identifier of declaration i receives the entity's id
set_decl(s, i, id) ==
    [s EXCEPT !.refs[i] = [value |-> id, writes |-> @.writes + 1]]

define_with_opt_id(s, overwrite_id, i, name, kind) ==
    IF overwrite_id # 0
        THEN set_decl([s EXCEPT !.arena[overwrite_id] = AnyEnt(name, kind, i, "None", 0)],
                      i, overwrite_id)
        ELSE set_decl(Alloc(s, AnyEnt(name, kind, i, "None", 0)), i, Len(s.arena) + 1)

\* The implicit-operation factories (enum_implicits, record_implicits, ...,
\* create_implicit_file_type_subprograms): one subprogram per type, whose
\* formal has the type; "=" returns boolean, file_open is a procedure.
ImplicitOf(s, typ, des, ret) ==
    LET s1 == Alloc(s, AnyEnt("arg", ObjectKind(typ), 0, "None", 0)) IN
    Alloc(s1, AnyEnt(des, OverloadedKind("SubprogramDecl", <<LastId(s1)>>, ret),
                     s.arena[typ].pos, "ImplicitOf", typ))

\* A variant that attaches the implicit to the type only.
AddImplicits_unscoped(s, typ, des, ret) ==
    LET s1 == ImplicitOf(s, typ, des, ret) IN
    add_implicit(s1, typ, LastId(s1))

\* for ent in implicits(typ) { arena.add_implicit(typ.id(), ent); scope.add(ent) }
AddImplicits(s, typ, des, ret) ==
    LET s1 == ImplicitOf(s, typ, des, ret) IN
    ScopeAdd(add_implicit(s1, typ, LastId(s1)), LastId(s1))

Ok(s)    == [s |-> s, fatal |-> FALSE]
Fatal(s) == [s |-> s, fatal |-> TRUE]

\* ------------------------------------------------ analyze_type_declaration
\* Each branch returns the state after it and whether a fatal error unwinds.
EnumerationDecl(s, i, decl, overwrite_id) ==
    LET typ == DefinedId(s, overwrite_id)
        s1  == define_with_opt_id(s, overwrite_id, i, decl.name, EnumKind(<<"a">>))
        \* the literal: a nullary overloaded entity returning the enum type
        s2  == Alloc(s1, AnyEnt("a", OverloadedKind("EnumLiteral", <<>>, typ), i, "None", 0))
        s3  == ScopeAdd(add_implicit(s2, typ, LastId(s2)), LastId(s2))
        s4  == ScopeAdd(s3, typ)
    IN  Ok(AddImplicits(s4, typ, "=", BooleanId))

\* The position of the k-th declaration inside the declaration at position i.
InnerPos(i, k) == 10 * i + k

\* Scope::extend(ptype_region, Some(scope)): a scope on a copy of the region of
\* the protected type, which the declarations of the body are added to
RECURSIVE extended(_, _, _, _)
extended(s, reg, rid, k) ==
    IF k > Len(reg) THEN s
    ELSE extended(Log(s, Event("add", rid, reg[k], s.arena[reg[k]].pos, TRUE, "-", "-")),
                  reg, rid, k + 1)

extend(s, reg) == extended(nested(s, "ProtectedBody"), reg, NumRegions(s.events) + 1, 1)

\* analyze_declarative_part(&region, &mut body.decl, diagnostics)?: the object
\* declarations decl.decls of the body, each defined and added to the region
\* of the body; decl.res is the outcome of one more declaration after them,
\* whose subtype indication may not resolve
RECURSIVE protected_body_declarations(_, _, _, _, _)
protected_body_declarations(s, i, decl, rid, k) ==
    IF k > Len(decl.decls)
        THEN IF decl.res = "fatal" THEN Fatal(s)
             ELSE IF decl.res = "err" THEN Ok(Push(s, ResolveError(InnerPos(i, k))))
             ELSE Ok(s)
    ELSE protected_body_declarations(
             NestedAdd(Alloc(s, AnyEnt(decl.decls[k], ObjectKind(IntegerId),
                                       InnerPos(i, k), "None", 0)),
                       rid, Len(s.arena) + 1, "diagnostics"),
             i, decl, rid, k + 1)

\* body_pos.swap(Some(pos of this body)), once the declarative part of the
\* body was analysed; a position already there is reported
body_pos_swap(r, i, ent) ==
    IF r.fatal THEN r
    ELSE IF r.s.arena[ent].kind.body_pos # 0
        THEN Ok(Push([r.s EXCEPT !.arena[ent].kind.body_pos = i],
                     duplicate_error(i, r.s.arena[ent].kind.body_pos)))
    ELSE Ok([r.s EXCEPT !.arena[ent].kind.body_pos = i])

ProtectedBodyDecl(s, i, decl) ==
    LET visible == lookup_immediate(s.arena, s.region, decl.name) IN
    IF visible = {}
        THEN Ok(Push(s, Diag("No declaration of protected type", i, 0)))
    ELSE LET ent == CHOOSE e \in visible : TRUE IN
         IF Cardinality(visible) = 1 /\ ~IsOverloaded(s.arena, ent)
            /\ IsType(s.arena, ent) /\ s.arena[ent].kind.t = "Protected"
            THEN body_pos_swap(
                     protected_body_declarations(
                         extend(set_unique_reference(s, i, ent), s.arena[ent].kind.region),
                         i, decl, NumRegions(s.events) + 1, 1),
                     i, ent)
            ELSE Ok(Push(s, Diag("is not a protected type", i, 0)))


\* The ids allocated between two states of the arena, in order.
Allocated(s, s1) == [n \in 1..(Len(s1.arena) - Len(s.arena)) |-> Len(s.arena) + n]

\* analyze_parameter_list: each formal is defined and added to the region of
\* the subprogram.
RECURSIVE analyze_parameter_list(_, _, _, _, _)
analyze_parameter_list(s, i, names, rid, k) ==
    IF k > Len(names) THEN s
    ELSE analyze_parameter_list(
             NestedAdd(Alloc(s, AnyEnt(names[k], ObjectKind(IntegerId), i, "None", 0)),
                       rid, Len(s.arena) + 1, "diagnostics"),
             i, names, rid, k + 1)

\* analyze_subprogram_declaration in the region rid: res = "fatal" is a fatal
\* error in the parameter list, "err" a return type that does not resolve (the
\* signature is an Err, the formals were added).
analyze_subprogram_declaration(s, i, decl, rid) ==
    IF decl.res = "fatal" THEN s
    ELSE analyze_parameter_list(s, i, decl.items, rid, 1)

\* subpgm_region = region.nested(); analyze_subprogram_declaration (the member
\* has no formals); subpgm_region.close; drop(subpgm_region)
member_region(s) == close(nested(s, "ProtectedSubprogram"), NumRegions(s.events) + 1)

\* for item in prot_decl.items: the member subprogram is analysed in a region
\* of its own, which is closed, and added to the region of the members.
RECURSIVE protected_items(_, _, _, _, _)
protected_items(s, i, decl, rid, k) ==
    IF k > Len(decl.items) THEN Ok(s)
    ELSE IF decl.res = "fatal" THEN Fatal(member_region(s))
    ELSE IF decl.res = "err"
        THEN protected_items(Push(member_region(s), ResolveError(i)), i, decl, rid, k + 1)
    ELSE protected_items(
             NestedAdd(Alloc(member_region(s),
                             AnyEnt(decl.items[k],
                                    OverloadedKind("SubprogramDecl", <<>>, IntegerId),
                                    i, "None", 0)),
                       rid, Len(s.arena) + 1, "diagnostics"),
             i, decl, rid, k + 1)

\* *region_ptr = region.into_region(), when the items were analysed
protected_region(r, typ, rid) ==
    IF r.fatal THEN r
    ELSE Ok([r.s EXCEPT !.arena[typ].kind.region = into_region(r.s.events, rid)])

ProtectedDecl(s, i, decl, overwrite_id) ==
    LET typ == DefinedId(s, overwrite_id)
        s1  == define_with_opt_id(s, overwrite_id, i, decl.name, ProtectedKind(<<>>, 0))
        s2  == ScopeAdd(s1, typ)
    IN  protected_region(protected_items(nested(s2, "Protected"), i, decl,
                                         NumRegions(s2.events) + 1, 1),
                         typ, NumRegions(s2.events) + 1)

\* for elem_decl in element_decls: an element whose subtype resolves is
\* defined and added to the region of the record and to its elements.
RECURSIVE record_elements(_, _, _, _, _)
record_elements(s, i, decl, rid, k) ==
    IF k > Len(decl.items) THEN s
    ELSE IF decl.res # "ok"
        THEN record_elements(Push(s, ResolveError(i)), i, decl, rid, k + 1)
    ELSE record_elements(
             NestedAdd(Alloc(s, AnyEnt(decl.items[k], ElementKind(IntegerId), i, "None", 0)),
                       rid, Len(s.arena) + 1, "diagnostics"),
             i, decl, rid, k + 1)

\* region.close; define the record with its elements; add it and its implicits
record_defined(s, s1, i, decl, overwrite_id, rid) ==
    LET s2  == close(s1, rid)
        typ == DefinedId(s2, overwrite_id)
        s3  == define_with_opt_id(s2, overwrite_id, i, decl.name, RecordKind(Allocated(s, s1)))
    IN  Ok(AddImplicits(ScopeAdd(s3, typ), typ, "=", BooleanId))

RecordDecl(s, i, decl, overwrite_id) ==
    IF decl.res = "fatal" THEN Fatal(nested(s, "Record"))
    ELSE record_defined(s, record_elements(nested(s, "Record"), i, decl,
                                           NumRegions(s.events) + 1, 1),
                        i, decl, overwrite_id, NumRegions(s.events) + 1)

AccessDecl(s, i, decl, overwrite_id) ==
    LET typ == DefinedId(s, overwrite_id)
        s1  == define_with_opt_id(s, overwrite_id, i, decl.name, SubtypeOf("Access", IntegerId))
    IN  IF decl.res = "fatal" THEN Fatal(s)
        ELSE IF decl.res = "err" THEN Ok(Push(s, ResolveError(i)))
        ELSE Ok(AddImplicits(ScopeAdd(s1, typ), typ, "=", BooleanId))

ArrayDecl(s, i, decl, overwrite_id) ==
    LET typ == DefinedId(s, overwrite_id)
        s1  == define_with_opt_id(s, overwrite_id, i, decl.name,
                                  ArrayKind(<<IntegerId>>, IntegerId))
    IN  IF decl.res = "fatal" THEN Fatal(s)
        ELSE IF decl.res = "err" THEN Ok(Push(s, ResolveError(i)))   \* return Ok(())
        ELSE Ok(AddImplicits(ScopeAdd(s1, typ), typ, "=", BooleanId))

SubtypeDecl(s, i, decl, overwrite_id) ==
    LET typ == DefinedId(s, overwrite_id)
        s1  == define_with_opt_id(s, overwrite_id, i, decl.name, SubtypeOf("Subtype", IntegerId))
    IN  IF decl.res = "fatal" THEN Fatal(s)
        ELSE IF decl.res = "err" THEN Ok(Push(s, ResolveError(i)))
        ELSE Ok(ScopeAdd(s1, typ))

PhysicalDecl(s, i, decl, overwrite_id) ==
    LET \* range_with_ttyp: a non-fatal problem is a diagnostic only
        s0  == IF decl.res = "err" THEN Push(s, ResolveError(i)) ELSE s
        typ == DefinedId(s0, overwrite_id)
        s1  == ScopeAdd(define_with_opt_id(s0, overwrite_id, i, decl.name, TypeKind("Physical")),
                        typ)
        \* the primary unit
        s2  == Alloc(s1, AnyEnt("ns", PhysLitKind(typ), i, "None", 0))
        s3  == ScopeAdd(add_implicit(s2, typ, LastId(s2)), LastId(s2))
    IN  IF decl.res = "fatal" THEN Fatal(s)
        ELSE Ok(AddImplicits(s3, typ, "=", BooleanId))

NumericDecl(s, i, decl, overwrite_id) ==
    LET typ == DefinedId(s, overwrite_id)
        s1  == define_with_opt_id(s, overwrite_id, i, decl.name, TypeKind("Integer"))
    IN  IF decl.res = "fatal" THEN Fatal(s)
        ELSE IF decl.res = "err" THEN Ok(Push(s, ResolveError(i)))   \* return Ok(())
        ELSE Ok(AddImplicits(ScopeAdd(s1, typ), typ, "=", BooleanId))

FileDecl(s, i, decl, overwrite_id) ==
    LET typ == DefinedId(s, overwrite_id)
        s1  == define_with_opt_id(s, overwrite_id, i, decl.name, TypeKind("File"))
    IN  IF decl.res = "fatal" THEN Fatal(s1)
        ELSE IF decl.res = "err" THEN Ok(ScopeAdd(Push(s1, ResolveError(i)), typ))
        ELSE Ok(ScopeAdd(AddImplicits(s1, typ, "file_open", 0), typ))

analyze_type_declaration(s, i, decl, overwrite_id) ==
    CASE decl.def = "Enumeration"   -> EnumerationDecl(s, i, decl, overwrite_id)
      [] decl.def = "ProtectedBody" -> ProtectedBodyDecl(s, i, decl)
      [] decl.def = "Protected"     -> ProtectedDecl(s, i, decl, overwrite_id)
      [] decl.def = "Record"        -> RecordDecl(s, i, decl, overwrite_id)
      [] decl.def = "Access"        -> AccessDecl(s, i, decl, overwrite_id)
      [] decl.def = "Array"         -> ArrayDecl(s, i, decl, overwrite_id)
      [] decl.def = "Subtype"       -> SubtypeDecl(s, i, decl, overwrite_id)
      [] decl.def = "Physical"      -> PhysicalDecl(s, i, decl, overwrite_id)
      [] decl.def = "Numeric"       -> NumericDecl(s, i, decl, overwrite_id)
      [] decl.def = "File"          -> FileDecl(s, i, decl, overwrite_id)

\* ---------------------------------------------------- sequential statements
\* A statement: its label ("" when it has none), its kind ("Null", "Loop" for
\* a loop without iteration scheme, "For") and the statements it contains.
Stmt(label, st, body) == [label |-> label, st |-> st, body |-> body]

\* if let Some(label) = statement.label { scope.add(define(label, Label)) }
statement_label(s, i, rid, stmt) ==
    IF stmt.label = "" THEN s
    ELSE NestedAdd(Alloc(s, AnyEnt(stmt.label, LabelKind, i, "None", 0)),
                   rid, Len(s.arena) + 1, "diagnostics")

\* IterationScheme::For: region = scope.nested(); region.add(LoopParameter)
loop_region(s, i) ==
    NestedAdd(Alloc(nested(s, "Loop"), AnyEnt("i", LoopParameterKind(IntegerId), i, "None", 0)),
              NumRegions(s.events) + 1, Len(s.arena) + 1, "diagnostics")

RECURSIVE analyze_sequential_part(_, _, _, _, _)
RECURSIVE analyze_sequential_statement(_, _, _, _)
RECURSIVE statement_kind(_, _, _, _)

analyze_sequential_part(s, i, rid, statements, k) ==
    IF k > Len(statements) THEN s
    ELSE analyze_sequential_part(analyze_sequential_statement(s, i, rid, statements[k]),
                                 i, rid, statements, k + 1)

\* match statement.statement
statement_kind(s, i, rid, stmt) ==
    CASE stmt.st = "Null" -> s
      [] stmt.st = "Loop" -> analyze_sequential_part(s, i, rid, stmt.body, 1)
      [] stmt.st = "For"  -> analyze_sequential_part(loop_region(s, i), i,
                                                     NumRegions(s.events) + 1, stmt.body, 1)

analyze_sequential_statement(s, i, rid, stmt) ==
    statement_kind(statement_label(s, i, rid, stmt), i, rid, stmt)

\* ----------------------------------------------------- analyze_declaration
\* Declaration::Object: the entity is defined and added when its subtype resolves.
ObjectDeclaration(s, i, decl) ==
    LET s1 == set_decl(Alloc(s, AnyEnt(decl.name, ObjectKind(IntegerId), i, "None", 0)),
                       i, Len(s.arena) + 1)
    IN
    IF decl.res = "fatal" THEN Fatal(s)
    ELSE IF decl.res = "err" THEN Ok(Push(s, ResolveError(i)))
    ELSE Ok(ScopeAdd(s1, LastId(s1)))

\* analyze_interface_list: each interface declaration analysed is added
RECURSIVE analyze_interface_list(_, _, _, _, _)
analyze_interface_list(s, i, decl, rid, k) ==
    IF k > Len(decl.items) THEN s
    ELSE IF decl.res # "ok"
        THEN analyze_interface_list(Push(s, ResolveError(i)), i, decl, rid, k + 1)
    ELSE analyze_interface_list(
             NestedAdd(Alloc(s, AnyEnt(decl.items[k], ObjectKind(IntegerId), i, "None", 0)),
                       rid, Len(s.arena) + 1, "diagnostics"),
             i, decl, rid, k + 1)

\* nested.close; define the component with the region captured; scope.add
component_defined(s, i, decl, rid) ==
    LET s1 == close(s, rid)
        s2 == set_decl(Alloc(s1, AnyEnt(decl.name, ComponentKind(into_region(s1.events, rid)),
                                        i, "None", 0)),
                       i, Len(s1.arena) + 1)
    IN  Ok(ScopeAdd(s2, LastId(s2)))

\* Declaration::Component
ComponentDeclaration(s, i, decl) ==
    IF decl.res = "fatal" THEN Fatal(nested(s, "Component"))
    ELSE component_defined(analyze_interface_list(nested(s, "Component"), i, decl,
                                                  NumRegions(s.events) + 1, 1),
                           i, decl, NumRegions(s.events) + 1)

\* define the subprogram with its signature; scope.add
subprogram_defined(s, s1, i, decl, o) ==
    LET s2 == set_decl(Alloc(s1, AnyEnt(decl.name, OverloadedKind(o, Allocated(s, s1), IntegerId),
                                        i, "None", 0)),
                       i, Len(s1.arena) + 1)
    IN  IF decl.res = "ok" THEN ScopeAdd(s2, LastId(s2))
        ELSE Push(s1, ResolveError(i))

\* subpgm_region.close; drop(subpgm_region); then the subprogram is defined
subprogram_closed(s, s1, i, decl, rid) ==
    IF decl.res = "fatal" THEN Fatal(close(s1, rid))
    ELSE Ok(subprogram_defined(s, close(s1, rid), i, decl, "SubprogramDecl"))

\* Declaration::SubprogramDeclaration
SubprogramDeclaration(s, i, decl) ==
    subprogram_closed(s, analyze_subprogram_declaration(nested(s, "SubprogramDeclaration"), i, decl,
                                                       NumRegions(s.events) + 1),
                      i, decl, NumRegions(s.events) + 1)

\* analyze_declarative_part of the body: object declarations, added to the
\* region of the subprogram
RECURSIVE body_declarations(_, _, _, _, _)
body_declarations(s, i, names, rid, k) ==
    IF k > Len(names) THEN s
    ELSE body_declarations(
             NestedAdd(Alloc(s, AnyEnt(names[k], ObjectKind(IntegerId), i, "None", 0)),
                       rid, Len(s.arena) + 1, "diagnostics"),
             i, names, rid, k + 1)

\* A variant that closes the region of the body after its statements.
subprogram_body_close_last(s, i, decl, rid) ==
    close(analyze_sequential_part(body_declarations(s, i, decl.decls, rid, 1),
                                  i, rid, decl.stmts, 1),
          rid)

\* the declarative part, subpgm_region.close, then the sequential part
subprogram_body(s, i, decl, rid) ==
    analyze_sequential_part(close(body_declarations(s, i, decl.decls, rid, 1), rid),
                            i, rid, decl.stmts, 1)

\* Declaration::SubprogramBody
SubprogramBody(s, i, decl) ==
    IF decl.res = "fatal"
        THEN Fatal(analyze_subprogram_declaration(nested(s, "SubprogramBody"), i, decl,
                                                  NumRegions(s.events) + 1))
    ELSE Ok(subprogram_body(
                subprogram_defined(s, analyze_subprogram_declaration(
                                          nested(s, "SubprogramBody"), i, decl,
                                          NumRegions(s.events) + 1),
                                   i, decl, "Subprogram"),
                i, decl, NumRegions(s.events) + 1))

\* ------------------------------------------------------ alias declarations
\* name is the alias designator, target the name aliased (a simple name, an
\* external name or another expression), signature the optional signature
\* (res "none" when absent, "ok" for a function signature without parameters
\* and return type ret, "err"/"fatal" when resolve_signature fails) and res
\* the outcome of the optional subtype indication ("none" when absent).
SimpleName(des)  == [form |-> "Simple", des |-> des]
ExternalName     == [form |-> "External", des |-> ""]
ExpressionName   == [form |-> "Expression", des |-> ""]
AliasSignature(res, ret) == [res |-> res, ret |-> ret]
NoSignature      == AliasSignature("none", 0)
AliasDecl(name, target, signature, res) ==
    [d |-> "Alias", name |-> name, def |-> "-", res |-> res,
     items |-> <<>>, decls |-> <<>>, stmts |-> <<>>,
     target |-> target, signature |-> signature]

DeferredConstantKind(st)      == [k |-> "DeferredConstant", subtype |-> st]
LibraryKind                   == [k |-> "Library"]
ObjectAliasKind(base_object, tm) ==
    [k |-> "ObjectAlias", base_object |-> base_object, type_mark |-> tm]
ExternalAliasKind(tm)         == [k |-> "ExternalAlias", class |-> "Signal", type_mark |-> tm]
TypeAliasKind(typ)            == [k |-> "Type", t |-> "Alias", typ |-> typ]
OverloadedAliasKind(ar, ent)  ==
    [k |-> "Overloaded", o |-> "Alias", formals |-> ar[ent].kind.formals,
     ret |-> ar[ent].kind.ret, aliased |-> ent]

\* The entities of the enclosing scope, visible by their designators.
Enclosing == 1..14

\* Scope::lookup: the innermost region first, then the enclosing scope.
Visible(s, des) ==
    LET here == lookup_immediate(s.arena, s.region, des) IN
    IF here # {} THEN here ELSE { id \in Enclosing : s.arena[id].des = des }

Resolved(cls, ents, obase, tm) ==
    [cls |-> cls, ents |-> ents, obase |-> obase, type_mark |-> tm]

\* name_resolve: the class of the name by the kind of what it denotes.
resolved_entity(ar, e) ==
    CASE ar[e].kind.k = "Type"             -> Resolved("Type", {e}, "-", 0)
      [] ar[e].kind.k = "Object"           -> Resolved("ObjectName", {e}, "Object",
                                                       ar[e].kind.subtype)
      [] ar[e].kind.k = "ObjectAlias"      -> Resolved("ObjectName", {ar[e].kind.base_object},
                                                       "ObjectAlias", ar[e].kind.type_mark)
      [] ar[e].kind.k = "DeferredConstant" -> Resolved("ObjectName", {e}, "DeferredConstant",
                                                       ar[e].kind.subtype)
      [] ar[e].kind.k = "Library"          -> Resolved("Library", {e}, "-", 0)
      [] ar[e].kind.k = "Design"           -> Resolved("Design", {e}, "-", 0)
      [] OTHER                             -> Resolved("Final", {e}, "-", 0)

name_resolve(s, target) ==
    IF target.form = "External"
        THEN Resolved("ObjectName", {}, "ExternalName", IntegerId)
    ELSE IF target.form = "Expression" THEN Resolved("Expression", {}, "-", 0)
    ELSE LET found == Visible(s, target.des) IN
         IF found = {} THEN Resolved("Err", {}, "-", 0)
         ELSE IF \A e \in found : IsOverloaded(s.arena, e)
             THEN Resolved("Overloaded", found, "-", 0)
         ELSE resolved_entity(s.arena, CHOOSE e \in found : ~IsOverloaded(s.arena, e))

should_not_have_signature(i) ==
    Diag("Alias should only have a signature for subprograms and enum literals", i, 0)
signature_required(i) ==
    Diag("Signature required for alias of subprogram and enum literals", i, 0)
no_overloaded_with_signature(i, overloaded) ==
    \* add_subprogram_candidates("Found", overloaded.entities())
    Diag("Could not find declaration with given signature", i, overloaded)
cannot_be_aliased(cls, i) ==
    Diag(CASE cls = "Library" -> "Library cannot be aliased"
           [] cls = "Design"  -> "Design cannot be aliased"
           [] OTHER           -> "Expression cannot be aliased", i, 0)

\* The reference slot of the name aliased by declaration i.
NameSlot(s, i) == Len(s.refs) \div 2 + i

\* What analyze_alias_declaration returns: ent is 0 for Err(EvalError::Unknown).
AliasResult(s, fatal, ent) == [s |-> s, fatal |-> fatal, ent |-> ent]

\* designator.define(self.arena, kind)
alias_defined(s, i, decl, kind) ==
    AliasResult(set_decl(Alloc(s, AnyEnt(decl.name, kind, i, "None", 0)), i, Len(s.arena) + 1),
                FALSE, Len(s.arena) + 1)

\* if let Some(signature) = signature { push(should_not_have_signature) }
signature_checked(s, i, decl) ==
    IF decl.signature.res # "none" THEN Push(s, should_not_have_signature(i)) ELSE s

\* ResolvedName::Overloaded
overloaded_alias(s, i, decl, rn) ==
    LET key  == [params |-> <<>>, ret |-> base_type(s.arena, decl.signature.ret)]
        hits == { e \in rn.ents : SignatureKey(s.arena, e) = key }
    IN
    IF decl.signature.res = "none" THEN AliasResult(Push(s, signature_required(i)), FALSE, 0)
    ELSE IF decl.signature.res = "fatal" THEN AliasResult(s, TRUE, 0)
    ELSE IF decl.signature.res = "err" THEN AliasResult(Push(s, ResolveError(i)), FALSE, 0)
    ELSE IF hits = {}
        THEN AliasResult(Push(s, no_overloaded_with_signature(i, rn.ents)), FALSE, 0)
    ELSE LET ent == CHOOSE e \in hits : TRUE IN
         alias_defined(set_unique_reference(s, NameSlot(s, i), ent), i, decl,
                       OverloadedAliasKind(s.arena, ent))

\* match resolved_name { ... }
alias_kind(s, i, decl, rn) ==
    CASE rn.cls = "ObjectName" ->
            IF rn.obase = "DeferredConstant"
                THEN AliasResult(signature_checked(s, i, decl), FALSE, 0)
            ELSE IF rn.obase = "ExternalName"
                THEN alias_defined(signature_checked(s, i, decl), i, decl,
                                   ExternalAliasKind(rn.type_mark))
            ELSE alias_defined(signature_checked(s, i, decl), i, decl,
                               ObjectAliasKind(CHOOSE e \in rn.ents : TRUE, rn.type_mark))
      [] rn.cls \in {"Library", "Design", "Expression"} ->
            AliasResult(Push(signature_checked(s, i, decl), cannot_be_aliased(rn.cls, i)),
                        FALSE, 0)
      [] rn.cls = "Type" ->
            alias_defined(signature_checked(s, i, decl), i, decl,
                          TypeAliasKind(CHOOSE e \in rn.ents : TRUE))
      [] rn.cls = "Overloaded" -> overloaded_alias(s, i, decl, rn)
      [] OTHER -> AliasResult(s, FALSE, 0)

\* analyze_alias_declaration: the name is resolved first, the subtype
\* indication is analysed next, and only then the failure of the name ends it.
analyze_alias_declaration(s, i, decl) ==
    LET rn == name_resolve(s, decl.target)
        s1 == IF rn.cls = "Err" THEN Push(s, Diag("No declaration of", i, 0)) ELSE s
        s2 == IF decl.res = "err" THEN Push(s1, ResolveError(i)) ELSE s1
    IN
    IF decl.res = "fatal" THEN AliasResult(s1, TRUE, 0)
    ELSE IF rn.cls = "Err" THEN AliasResult(s2, FALSE, 0)
    ELSE alias_kind(s2, i, decl, rn)

\* NamedEntity::as_actual: the entity an alias stands for.
RECURSIVE as_actual(_, _)
as_actual(ar, id) ==
    IF ar[id].kind.k = "Type" /\ ar[id].kind.t = "Alias" THEN as_actual(ar, ar[id].kind.typ)
    ELSE IF ar[id].kind.k = "Overloaded" /\ ar[id].kind.o = "Alias"
        THEN as_actual(ar, ar[id].kind.aliased)
    ELSE id

\* for implicit in ent.as_actual().implicits: an implicit alias is added
RECURSIVE alias_implicits(_, _, _, _)
alias_implicits(s, ent, implicits, k) ==
    IF k > Len(implicits) THEN s
    ELSE IF ~IsOverloaded(s.arena, implicits[k]) THEN alias_implicits(s, ent, implicits, k + 1)
    ELSE LET s1 == Alloc(s, AnyEnt(s.arena[implicits[k]].des,
                                   OverloadedAliasKind(s.arena, implicits[k]),
                                   s.arena[ent].pos, "ImplicitOf", ent))
             s2 == add_implicit(s1, ent, LastId(s1))
         IN  alias_implicits(ScopeAdd(s2, LastId(s2)), ent, implicits, k + 1)

alias_added(r) ==
    IF r.fatal THEN Fatal(r.s)
    ELSE IF r.ent = 0 THEN Ok(r.s)
    ELSE Ok(alias_implicits(ScopeAdd(r.s, r.ent), r.ent,
                            r.s.arena[as_actual(r.s.arena, r.ent)].implicits, 1))

\* Declaration::Alias
AliasDeclaration(s, i, decl) == alias_added(analyze_alias_declaration(s, i, decl))
analyze_declaration(s, i, decl) ==
    CASE decl.d = "Alias"                 -> AliasDeclaration(s, i, decl)
      [] decl.d = "Object"                -> ObjectDeclaration(s, i, decl)
      [] decl.d = "Component"             -> ComponentDeclaration(s, i, decl)
      [] decl.d = "SubprogramBody"        -> SubprogramBody(s, i, decl)
      [] decl.d = "SubprogramDeclaration" -> SubprogramDeclaration(s, i, decl)

\* ------------------------------------------------ analyze_declarative_part
\* A variant that does not skip incomplete declarations.
find_any_type_definition(name, remaining) ==
    LET hits == { j \in 1..Len(remaining) :
                    remaining[j].d = "Type" /\ remaining[j].name = name }
    IN  IF hits = {} THEN 0 ELSE CHOOSE j \in hits : \A k \in hits : j <= k

\* A variant that does not take a protected type body for a full declaration.
find_declared_type_definition(name, remaining) ==
    LET hits == { j \in 1..Len(remaining) :
                    /\ remaining[j].d = "Type"
                    /\ remaining[j].def \notin {"Incomplete", "ProtectedBody"}
                    /\ remaining[j].name = name }
    IN  IF hits = {} THEN 0 ELSE CHOOSE j \in hits : \A k \in hits : j <= k
\* find_full_type_definition(name, remaining): the offset in `remaining` of the
\* first type declaration of that name that is not incomplete, 0 when none.
find_full_type_definition(name, remaining) ==
    LET hits == { j \in 1..Len(remaining) :
                    /\ remaining[j].d = "Type"
                    /\ remaining[j].def # "Incomplete"
                    /\ remaining[j].name = name }
    IN  IF hits = {} THEN 0 ELSE CHOOSE j \in hits : \A k \in hits : j <= k

Remaining(i) == SubSeq(declarations, i + 1, Len(declarations))

Current == [arena |-> arena, region |-> region, diags |-> diagnostics, refs |-> refs,
            events |-> events]

\* A variant that drops the result of the handler instead of propagating it.
Commit_IgnoreFatal(r) ==
    /\ arena' = r.s.arena
    /\ region' = r.s.region
    /\ diagnostics' = r.s.diags
    /\ refs' = r.s.refs
    /\ events' = r.s.events
    /\ visited' = Append(visited, idx)
    /\ idx' = idx + 1
    /\ status' = IF idx = Len(declarations) THEN "ok" ELSE "running"
    /\ UNCHANGED <<declarations, opVars, instVars>>

\* What one iteration of the loop leaves behind; a fatal error ends the walk.
Commit(r) ==
    /\ arena' = r.s.arena
    /\ region' = r.s.region
    /\ diagnostics' = r.s.diags
    /\ refs' = r.s.refs
    /\ events' = r.s.events
    /\ visited' = Append(visited, idx)
    /\ idx' = idx + 1
    /\ status' = IF r.fatal THEN "fatal"
                 ELSE IF idx = Len(declarations) THEN "ok" ELSE "running"
    /\ UNCHANGED <<declarations, opVars, instVars>>

\* Declaration::Type with TypeDefinition::Incomplete
IncompleteDecl(s, i, decl) ==
    LET full     == find_full_type_definition(decl.name, Remaining(i))
        decl_pos == IF full # 0 THEN i + full ELSE i
        s1 == IF full # 0 THEN s
              ELSE Push(s, Diag("Missing full type declaration of incomplete type", i, i))
        s2 == Alloc(s1, AnyEnt(decl.name, IncompleteKind, decl_pos, "None", 0))
        s3 == set_unique_reference(s2, i, LastId(s2))
    IN  ScopeAdd(s3, LastId(s2))

\* A variant in which a repeated incomplete declaration takes the entry over.
AnalyzeIncomplete_Refresh ==
    /\ status = "running"
    /\ declarations[idx].d = "Type" /\ declarations[idx].def = "Incomplete"
    /\ LET decl == declarations[idx] IN
       IF incomplete_types[decl.name].ent = 0
          THEN LET s == IncompleteDecl(Current, idx, decl) IN
               /\ incomplete_types' =
                     [incomplete_types EXCEPT ![decl.name] = [ent |-> Len(s.arena), pos |-> idx]]
               /\ Commit(Ok(s))
          ELSE /\ incomplete_types' = [incomplete_types EXCEPT ![decl.name].pos = idx]
               /\ Commit(Ok(Push(Current,
                            duplicate_error(idx, incomplete_types[decl.name].pos))))

\* Declaration::Type with TypeDefinition::Incomplete: Entry::Vacant, Entry::Occupied
AnalyzeIncomplete ==
    /\ status = "running"
    /\ declarations[idx].d = "Type" /\ declarations[idx].def = "Incomplete"
    /\ LET decl == declarations[idx] IN
       IF incomplete_types[decl.name].ent = 0
          THEN LET s == IncompleteDecl(Current, idx, decl) IN
               /\ incomplete_types' =
                     [incomplete_types EXCEPT ![decl.name] = [ent |-> Len(s.arena), pos |-> idx]]
               /\ Commit(Ok(s))
          ELSE /\ UNCHANGED incomplete_types
               /\ Commit(Ok(Push(Current,
                            duplicate_error(idx, incomplete_types[decl.name].pos))))

\* A variant that never passes the incomplete type's id on.
AnalyzeType_NoOverwrite ==
    /\ status = "running"
    /\ declarations[idx].d = "Type" /\ declarations[idx].def # "Incomplete"
    /\ Commit(analyze_type_declaration(Current, idx, declarations[idx], 0))
    /\ UNCHANGED incomplete_types

\* Declaration::Type with any other definition
AnalyzeType ==
    /\ status = "running"
    /\ declarations[idx].d = "Type" /\ declarations[idx].def # "Incomplete"
    /\ Commit(analyze_type_declaration(Current, idx, declarations[idx],
                                       incomplete_types[declarations[idx].name].ent))
    /\ UNCHANGED incomplete_types

\* every other declaration
AnalyzeDeclaration ==
    /\ status = "running"
    /\ declarations[idx].d # "Type"
    /\ Commit(analyze_declaration(Current, idx, declarations[idx]))
    /\ UNCHANGED incomplete_types

InitDecl ==
    /\ declarations \in UNION { [1..n -> DeclPool] : n \in 1..MaxDecls }
    /\ idx = 1
    /\ arena = StdArena
    /\ region = <<>>
    /\ incomplete_types = [n \in Names |-> [ent |-> 0, pos |-> 0]]
    /\ diagnostics = <<>>
    /\ refs = [i \in 1..Len(declarations) |-> [value |-> 0, writes |-> 0]]
    /\ visited = <<>>
    /\ status = "running"
    /\ events = <<>>
    /\ OpIdle
    /\ InstIdle

NextDecl == AnalyzeIncomplete \/ AnalyzeType \/ AnalyzeDeclaration

\* ---------------------------------------- declarations with nested regions
\* The statement lists of the subprogram bodies analysed.
BodyStmts ==
    { <<>>,
      << Stmt("l", "Null", <<>>) >>,
      << Stmt("l", "Null", <<>>), Stmt("l", "Null", <<>>) >>,
      << Stmt("", "For", << Stmt("l", "Null", <<>>) >>), Stmt("l", "Null", <<>>) >>,
      << Stmt("x", "Loop", << Stmt("l", "For", <<>>) >>) >> }

Resolutions == {"ok", "err", "fatal"}

NestedPool ==
    { DeclWith("SubprogramBody", "p", "-", res, <<"x">>, decls, stmts) :
          res \in Resolutions, decls \in {<<>>, <<"x">>}, stmts \in BodyStmts }
    \cup { DeclWith(d, "q", "-", res, items, <<>>, <<>>) :
              d \in {"SubprogramDeclaration", "Component"}, res \in Resolutions,
              items \in {<<"x">>, <<"x", "x">>} }
    \cup { DeclWith("Type", "t", "Record", res, items, <<>>, <<>>) :
              res \in Resolutions, items \in {<<"f">>, <<"f", "f">>} }
    \cup { DeclWith("Type", "t", "Protected", res, items, <<>>, <<>>) :
              res \in Resolutions, items \in {<<"get">>, <<"get", "get">>} }
    \cup { TypeDecl("t", "Incomplete", "ok") }

InitNested ==
    /\ declarations \in UNION { [1..n -> NestedPool] : n \in 1..MaxNested }
    /\ idx = 1
    /\ arena = StdArena
    /\ region = <<>>
    /\ incomplete_types = [n \in Names |-> [ent |-> 0, pos |-> 0]]
    /\ diagnostics = <<>>
    /\ refs = [i \in 1..Len(declarations) |-> [value |-> 0, writes |-> 0]]
    /\ visited = <<>>
    /\ status = "running"
    /\ events = <<>>
    /\ OpIdle
    /\ InstIdle

\* ------------------------------------- protected types and their bodies
\* A declarative part that declares the protected type t and goes on with
\* bodies of it (without declarations; with an object and a declaration that
\* fails fatally; with objects named like a member of the type and like each
\* other and a declaration that does not resolve), and declarations of
\* another name.
MaxBodies == 4

BodyPool ==
    { BodyDecl("t", <<>>, "ok"), BodyDecl("t", <<"x">>, "fatal"),
      BodyDecl("t", <<"get", "x", "x">>, "err"),
      BodyDecl("u", <<"x">>, "ok"), TypeDecl("u", "Protected", "ok"),
      TypeDecl("u", "Incomplete", "ok"), ObjectDecl("t", "ok") }

InitBodies ==
    /\ declarations \in { <<TypeDecl("t", "Protected", "ok")>> \o bodies :
                            bodies \in UNION { [1..n -> BodyPool] : n \in 1..MaxBodies } }
    /\ idx = 1
    /\ arena = StdArena
    /\ region = <<>>
    /\ incomplete_types = [n \in Names |-> [ent |-> 0, pos |-> 0]]
    /\ diagnostics = <<>>
    /\ refs = [i \in 1..Len(declarations) |-> [value |-> 0, writes |-> 0]]
    /\ visited = <<>>
    /\ status = "running"
    /\ events = <<>>
    /\ OpIdle
    /\ InstIdle

\* ------------------------------------------------------ alias declarations
\* The enclosing scope of the declarative part: an object c, a deferred
\* constant dc, a library, a design unit, two functions f (returning integer
\* and boolean), a label, an alias oa of c, and an enumeration type col with
\* its literal red and its implicit "=".
MaxAliases == 2

AliasEnts ==
    << AnyEnt("c", ObjectKind(IntegerId), 0, "None", 0),
       AnyEnt("dc", DeferredConstantKind(IntegerId), 0, "None", 0),
       AnyEnt("lib", LibraryKind, 0, "None", 0),
       AnyEnt("ent", DesignKind("Entity", 0), 0, "None", 0),
       AnyEnt("f", OverloadedKind("SubprogramDecl", <<>>, IntegerId), 0, "None", 0),
       AnyEnt("f", OverloadedKind("SubprogramDecl", <<>>, BooleanId), 0, "None", 0),
       AnyEnt("lbl", LabelKind, 0, "None", 0),
       AnyEnt("oa", ObjectAliasKind(3, IntegerId), 0, "None", 0),
       [AnyEnt("col", EnumKind(<<"red">>), 0, "None", 0) EXCEPT !.implicits = <<12, 14>>],
       AnyEnt("red", OverloadedKind("EnumLiteral", <<>>, 11), 0, "None", 0),
       AnyEnt("arg", ObjectKind(11), 0, "None", 0),
       AnyEnt("=", OverloadedKind("SubprogramDecl", <<13, 13>>, BooleanId), 0,
              "ImplicitOf", 11) >>

AliasArena == StdArena \o AliasEnts

AliasTargets ==
    { SimpleName(des) : des \in {"c", "dc", "lib", "ent", "f", "lbl", "oa", "col", "zz", "al"} }
    \cup { ExternalName, ExpressionName }

AliasPool ==
    { AliasDecl("al", target, signature, "none") :
          target \in AliasTargets,
          signature \in {NoSignature, AliasSignature("ok", IntegerId)} }
    \cup { AliasDecl("al", SimpleName("f"), signature, "none") :
              signature \in { AliasSignature("ok", 11), AliasSignature("err", 0),
                              AliasSignature("fatal", 0) } }
    \cup { AliasDecl("al", SimpleName(des), NoSignature, res) :
              des \in {"c", "zz"}, res \in Resolutions }
    \cup { ObjectDecl("c", "ok") }

InitAlias ==
    /\ declarations \in UNION { [1..n -> AliasPool] : n \in 1..MaxAliases }
    /\ idx = 1
    /\ arena = AliasArena
    /\ region = <<>>
    /\ incomplete_types = [n \in Names |-> [ent |-> 0, pos |-> 0]]
    /\ diagnostics = <<>>
    /\ refs = [i \in 1..(2 * Len(declarations)) |-> [value |-> 0, writes |-> 0]]
    /\ visited = <<>>
    /\ status = "running"
    /\ events = <<>>
    /\ OpIdle
    /\ InstIdle

NextAlias == AnalyzeDeclaration
\* ===================================================== the expression typer
\* The types, interface objects and operator overloads the typer is run
\* against: the arena below is fixed while expressions are typed.
\* the ids of the types of OpTypes, which follow the standard types in the arena
UniversalIntegerId == BooleanId + 1
UniversalRealId    == UniversalIntegerId + 1
RealId             == UniversalRealId + 1
NaturalId          == RealId + 1
BitId              == NaturalId + 1
BitVectorId        == BitId + 1
CharacterId        == BitVectorId + 1
StringId           == CharacterId + 1
PtrId              == StringId + 1
RecId              == PtrId + 1

Formal(typ) == AnyEnt("arg", ObjectKind(typ), 0, "None", 0)
Function(des, formals, ret) ==
    AnyEnt(des, OverloadedKind("SubprogramDecl", formals, ret), 0, "None", 0)

OpTypes ==
    << AnyEnt("universal_integer", TypeKind("UniversalInteger"), 0, "None", 0),
       AnyEnt("universal_real", TypeKind("UniversalReal"), 0, "None", 0),
       AnyEnt("real", TypeKind("Real"), 0, "None", 0),
       AnyEnt("natural", SubtypeOf("Subtype", IntegerId), 0, "None", 0),
       AnyEnt("bit", EnumKind(<<"'0'", "'1'">>), 0, "None", 0),
       AnyEnt("bit_vector", ArrayKind(<<IntegerId>>, BitId), 0, "None", 0),
       AnyEnt("character", EnumKind(<<"'a'">>), 0, "None", 0),
       AnyEnt("string", ArrayKind(<<IntegerId>>, CharacterId), 0, "None", 0),
       AnyEnt("ptr_t", SubtypeOf("Access", IntegerId), 0, "None", 0),
       AnyEnt("rec_t", RecordKind(<<18>>), 0, "None", 0) >>

\* interface objects 13..18: integer, real, universal_integer, bit_vector, string, bit;
\* 18 is also the one element, arg : bit, of the record type rec_t
OpFormals ==
    << Formal(IntegerId), Formal(RealId), Formal(UniversalIntegerId),
       Formal(BitVectorId), Formal(StringId), Formal(BitId) >>

\* overloads 19..28 of the operator symbols "+" (unary and binary) and "??"
OpOverloads ==
    << Function("+", <<13, 13>>, IntegerId),
       Function("+", <<15, 15>>, UniversalIntegerId),
       Function("+", <<13, 13>>, BooleanId),
       Function("+", <<14, 14>>, RealId),
       Function("+", <<16>>, RealId),
       Function("+", <<17>>, IntegerId),
       Function("+", <<16>>, IntegerId),
       Function("+", <<16>>, BitId),
       Function("+", <<15>>, UniversalIntegerId),
       Function("??", <<18>>, BooleanId) >>

OpArena == StdArena \o OpTypes \o OpFormals \o OpOverloads

PlusOverloads == 19..27
QueQueId      == 28

kind(id)        == arena[id].kind
base(id)        == base_type(arena, id)
return_type(id) == arena[id].kind.ret
formals(id)     == arena[id].kind.formals
nth_base(id, n) == base(type_mark(arena, formals(id)[n]))

\* ------------------------------------------- type classification predicates
is_any_integer(t) == kind(t).t \in {"Integer", "UniversalInteger"}
is_any_real(t)    == kind(t).t \in {"Real", "UniversalReal"}
is_access(t)      == kind(t).t = "Access"
is_composite(t)   == kind(t).t \in {"Array", "Record"}
is_compatible_with_string_literal(t) ==
    /\ kind(t).t = "Array"
    /\ Len(kind(t).indexes) = 1
    /\ kind(base(kind(t).elem_type)).t = "Enum"

\* ----------------------------------------------------------- ExpressionType
Unambiguous(typ) == [tag |-> "Unambiguous", typ |-> typ]
Ambiguous(types) == [tag |-> "Ambiguous", types |-> types]
StringType       == [tag |-> "String"]
NullType         == [tag |-> "Null"]
AggregateType    == [tag |-> "Aggregate"]

\* ExpressionType::match_type
match_type(types, other) ==
    CASE types.tag = "Unambiguous" -> base(types.typ) = other
      [] types.tag = "Ambiguous"   -> other \in types.types
      [] types.tag = "String"      -> is_compatible_with_string_literal(other)
      [] types.tag = "Null"        -> is_access(other)
      [] types.tag = "Aggregate"   -> is_composite(other)

\* A variant in which an integer target takes the cast of the real types.
is_possible_swapped(implicit_type_conversion, types, ttyp) ==
    IF match_type(types, ttyp) THEN TRUE
    ELSE IF implicit_type_conversion THEN
        CASE kind(ttyp).t = "Integer" -> match_type(types, UniversalRealId)
          [] kind(ttyp).t = "Real"    -> match_type(types, UniversalIntegerId)
          [] OTHER -> FALSE
    ELSE FALSE

\* TypeMatcher::is_possible
is_possible(implicit_type_conversion, types, ttyp) ==
    IF match_type(types, ttyp) THEN TRUE
    ELSE IF implicit_type_conversion THEN
        CASE kind(ttyp).t = "Integer" -> match_type(types, UniversalIntegerId)
          [] kind(ttyp).t = "Real"    -> match_type(types, UniversalRealId)
          [] kind(ttyp).t = "UniversalInteger" ->
                CASE types.tag = "Unambiguous" -> is_any_integer(base(types.typ))
                  [] types.tag = "Ambiguous"   -> \E typ \in types.types : is_any_integer(typ)
                  [] OTHER -> FALSE
          [] kind(ttyp).t = "UniversalReal" ->
                CASE types.tag = "Unambiguous" -> is_any_real(base(types.typ))
                  [] types.tag = "Ambiguous"   -> \E typ \in types.types : is_any_real(typ)
                  [] OTHER -> FALSE
          [] OTHER -> FALSE
    ELSE FALSE

\* TypeMatcher::can_be_target_type
can_be_target_type(implicit_type_conversion, typ, ttyp) ==
    is_possible(implicit_type_conversion, Unambiguous(typ), ttyp)

\* ------------------------------------------ is_possible on its own (inputs)
TypeIds   == 1..12
BaseTypes == { t \in TypeIds : base_type(OpArena, t) = t }

ExpressionTypes ==
    { Unambiguous(t) : t \in TypeIds }
    \cup { Ambiguous({a, b}) : a, b \in {IntegerId, UniversalIntegerId, RealId, BitId, BooleanId} }
    \cup { StringType, NullType, AggregateType }

InitMatch ==
    /\ declarations = <<>> /\ idx = 1 /\ incomplete_types = <<>> /\ visited = <<>>
    /\ arena = OpArena /\ region = <<>> /\ diagnostics = <<>> /\ refs = <<>>
    /\ status = "matching" /\ events = <<>> /\ InstIdle
    /\ expr = <<>> /\ calls = 0 /\ typed = <<>> /\ disamb = <<>> /\ result = <<>>
    /\ sroot = <<>>
    /\ last \in [call : {"is_possible"}, implicit : BOOLEAN,
                 types : ExpressionTypes, ttyp : BaseTypes]

IsPossible ==
    /\ status = "matching" /\ calls = 0
    /\ result' = is_possible(last.implicit, last.types, last.ttyp)
    /\ calls' = 1
    /\ UNCHANGED <<declVars, instVars, expr, typed, last, disamb, sroot>>

NextMatch == IsPossible

\* -------------------------------------------------------------- expressions
\* A node carries its source position; the position of an operator node is
\* also the index of its reference slot in refs.
Leaf(pos, lit, typ) == [e |-> "Leaf", pos |-> pos, lit |-> lit, typ |-> typ]
Op(pos, args)       == [e |-> "Op", pos |-> pos, args |-> args]

LeafForms ==
    { <<"Integer", 0>>, <<"String", 0>>, <<"Missing", 0>>,
      <<"Name", IntegerId>>, <<"Name", NaturalId>> }

MkLeaf(pos, f) == Leaf(pos, f[1], f[2])

ExprPool ==
    { Op(1, <<MkLeaf(2, f)>>) : f \in LeafForms }
    \cup { Op(1, <<MkLeaf(2, f), MkLeaf(3, g)>>) : f, g \in LeafForms }
    \cup { Op(1, <<Op(2, <<MkLeaf(4, f)>>), MkLeaf(3, <<"Integer", 0>>)>>) : f \in LeafForms }
    \cup { Op(1, <<Op(2, <<MkLeaf(4, f), MkLeaf(5, <<"Integer", 0>>)>>)>>) : f \in LeafForms }

NumOps(e) == IF e.args[1].e = "Op" THEN 2 ELSE 1

\* A variant that types a real literal as an integer literal.
LeafType_real_as_integer(l) ==
    CASE l.lit \in {"Integer", "Real"} -> Unambiguous(UniversalIntegerId)
      [] l.lit \in {"String", "BitString"} -> StringType
      [] l.lit = "Null"      -> NullType
      [] l.lit = "Aggregate" -> AggregateType
      [] l.lit = "Name"      -> Unambiguous(l.typ)

\* The forward type of a literal or name (expr_pos_type, Literal and Name arms).
LeafType(l) ==
    CASE l.lit = "Integer"   -> Unambiguous(UniversalIntegerId)
      [] l.lit = "Real"      -> Unambiguous(UniversalRealId)
      [] l.lit = "String"    -> StringType
      [] l.lit = "BitString" -> StringType
      [] l.lit = "Null"      -> NullType
      [] l.lit = "Aggregate" -> AggregateType
      [] l.lit = "Name"      -> Unambiguous(l.typ)

\* ------------------------------------------------- the disambiguation steps
\* AnalyzeContext::lookup_operator: the visible overloads of the operator
\* symbol with the arity of the call that are functions.
lookup_operator(scope, arity) ==
    LET is_candidate(ent) == /\ arena[ent].des = "+"
                             /\ Len(formals(ent)) = arity
                             /\ return_type(ent) # 0
    IN  SelectSeq(scope, is_candidate)

\* TypeMatcher::disambiguate_op_by_arguments
disambiguate_op_by_arguments(implicit, candidates, operand_types) ==
    LET keep(ent) == \A i \in 1..Len(operand_types) :
                        is_possible(implicit, operand_types[i], nth_base(ent, i))
    IN  SelectSeq(candidates, keep)

\* TypeMatcher::disambiguate_op_by_return_type (ttyp = 0: no target type)
disambiguate_op_by_return_type(implicit, candidates, ttyp) ==
    LET keep(ent) == ttyp = 0 \/ can_be_target_type(implicit, return_type(ent), base(ttyp))
    IN  SelectSeq(candidates, keep)

\* A variant for which no type has a universal type.
as_universal_none(typ) == 0

\* AnalyzeContext::as_universal (0: none)
as_universal(typ) ==
    CASE kind(typ).t = "Integer" -> UniversalIntegerId
      [] kind(typ).t = "Real"    -> UniversalRealId
      [] OTHER                   -> 0

ReturnTypes(candidates) ==
    { base(return_type(candidates[i])) : i \in 1..Len(candidates) }

\* "Remove INTEGER if universal integer is a candidate"
remove_shadowed_by_universal(candidates) ==
    LET return_types == ReturnTypes(candidates)
        keep(cand) == LET univ == as_universal(base(return_type(cand))) IN
                      univ = 0 \/ univ \notin return_types
    IN  SelectSeq(candidates, keep)

\* A variant that settles for the first candidate matching without a cast.
restore_first(candidates, overloaded, operand_types) ==
    LET cands == disambiguate_op_by_arguments(FALSE, overloaded, operand_types) IN
    IF Len(cands) >= 1 THEN <<cands[1]>> ELSE candidates

\* "Try to disambiguate to a single candidate if return type ruled out all
\* candidates but it is unambiguous without implicit argument cast"
restore_unique(candidates, overloaded, operand_types) ==
    LET cands == disambiguate_op_by_arguments(FALSE, overloaded, operand_types) IN
    IF Len(cands) = 1 THEN cands ELSE candidates

\* A variant that filters a single candidate as well.
by_arguments_with_cast_always(overloaded, operand_types) ==
    disambiguate_op_by_arguments(TRUE, overloaded, operand_types)

\* The steps of disambiguate_op between the operand types and the outcome.
by_arguments_with_cast(overloaded, operand_types) ==
    IF Len(overloaded) > 1
        THEN disambiguate_op_by_arguments(TRUE, overloaded, operand_types)
        ELSE overloaded

by_return_type_with_cast(candidates, ttyp) ==
    IF Len(candidates) > 1 /\ ttyp # 0
        THEN disambiguate_op_by_return_type(TRUE, candidates, ttyp)
        ELSE candidates

\* A variant that drops the casts whatever the candidates return.
by_arguments_without_cast_always(candidates, operand_types) ==
    IF Len(candidates) > 1
        THEN disambiguate_op_by_arguments(FALSE, candidates, operand_types)
        ELSE candidates

\* "Try to further disambiguate by removing implicit universal casts"
by_arguments_without_cast(candidates, operand_types) ==
    IF Len(candidates) > 1 /\ Cardinality(ReturnTypes(candidates)) = 1
        THEN disambiguate_op_by_arguments(FALSE, candidates, operand_types)
        ELSE candidates

by_return_type_without_cast(candidates, ttyp) ==
    IF Len(candidates) > 1
        THEN IF ttyp # 0 THEN disambiguate_op_by_return_type(FALSE, candidates, ttyp)
             ELSE remove_shadowed_by_universal(candidates)
        ELSE candidates

\* A variant that leaves an empty list of candidates empty.
restore_if_empty_never(candidates, overloaded, operand_types) == candidates

restore_if_empty(candidates, overloaded, operand_types) ==
    IF Len(candidates) = 0 THEN restore_unique(candidates, overloaded, operand_types)
    ELSE candidates

\* The candidates disambiguate_op is left with before it decides the outcome.
Survivors(overloaded, operand_types, ttyp) ==
    restore_if_empty(
        by_return_type_without_cast(
            by_arguments_without_cast(
                by_return_type_with_cast(
                    by_arguments_with_cast(overloaded, operand_types), ttyp),
                operand_types),
            ttyp),
        overloaded, operand_types)

\* ------------------------------------------------------------ the typer
\* The operators below thread s = [refs, diags, typed, scope] through the
\* typer; scope is the list of visible overloads in declaration order.
type_mismatch(pos) == Diag("type mismatch", pos, <<>>)
no_match(pos)      == Diag("Found no match for operator", pos, <<>>)
ambiguous_op(pos, candidates) == Diag("ambiguous use of operator", pos, candidates)

Disambiguated(s, st, ent, cands, ran) ==
    [s |-> s, st |-> st, ent |-> ent, cands |-> cands, ran |-> ran]

Known(s, t) == [s |-> s, ok |-> TRUE, t |-> t]
Unknown(s)  == [s |-> s, ok |-> FALSE, t |-> <<>>]

RECURSIVE expr_pos_type(_, _)
RECURSIVE expr_pos_with_ttyp(_, _, _)
RECURSIVE disambiguate_op(_, _, _, _)
RECURSIVE operand_loop(_, _, _, _)
RECURSIVE check_loop(_, _, _, _)

\* one turn of the loop of operand_types, r the type of operand i
operand_next(r, exprs, i, acc) ==
    IF r.ok THEN operand_loop(r.s, exprs, i + 1, Append(acc, r.t))
    ELSE [s |-> r.s, ok |-> FALSE, types |-> <<>>]

\* the loop of operand_types; s.diags is the local expr_diagnostics
operand_loop(s, exprs, i, acc) ==
    IF i > Len(exprs) THEN [s |-> s, ok |-> TRUE, types |-> acc]
    ELSE operand_next(expr_pos_type(s, exprs[i]), exprs, i, acc)

\* A variant that hands the operands' diagnostics to the sink in every case.
operand_result_forwarding(diags, r) ==
    [s |-> [r.s EXCEPT !.diags = diags \o r.s.diags], ok |-> r.ok, types |-> r.types]
\* the operands' diagnostics reach the sink only when an operand is unknown
operand_result(diags, r) ==
    IF r.ok THEN [s |-> [r.s EXCEPT !.diags = diags], ok |-> TRUE, types |-> r.types]
    ELSE [s |-> [r.s EXCEPT !.diags = diags \o r.s.diags], ok |-> FALSE, types |-> <<>>]

\* AnalyzeContext::operand_types
operand_types(s, exprs) ==
    operand_result(s.diags, operand_loop([s EXCEPT !.diags = <<>>], exprs, 1, <<>>))

\* the loop of check_op
check_loop(s, exprs, ent, i) ==
    IF i > Len(exprs) THEN s
    ELSE check_loop(expr_pos_with_ttyp(s, type_mark(arena, formals(ent)[i]), exprs[i]),
                    exprs, ent, i + 1)

\* AnalyzeContext::check_op
check_op(s, op, overloaded) ==
    check_loop(set_unique_reference(s, op.pos, overloaded), op.args, overloaded, 1)

\* A variant that settles for the first of several candidates.
outcome_first(s, op, candidates) ==
    IF Len(candidates) = 0
        THEN Disambiguated(Push(s, no_match(op.pos)), "Unknown", 0, candidates, TRUE)
    ELSE Disambiguated(check_op(s, op, candidates[1]), "Unambiguous",
                       candidates[1], candidates, TRUE)

\* the outcome of disambiguate_op by the number of candidates left
outcome(s, op, candidates) ==
    IF Len(candidates) = 0
        THEN Disambiguated(Push(s, no_match(op.pos)), "Unknown", 0, candidates, TRUE)
    ELSE IF Len(candidates) = 1
        THEN Disambiguated(check_op(s, op, candidates[1]), "Unambiguous",
                           candidates[1], candidates, TRUE)
    ELSE Disambiguated(s, "Ambiguous", 0, candidates, TRUE)

\* disambiguate_op once the operand types ot are there
resolve(ot, ttyp, op, overloaded) ==
    IF ~ot.ok THEN Disambiguated(ot.s, "Unknown", 0, <<>>, FALSE)
    ELSE outcome(ot.s, op, Survivors(overloaded, ot.types, ttyp))

\* A variant without the early return on an operator resolved before.
disambiguate_op_again(s, ttyp, op, overloaded) ==
    resolve(operand_types(s, op.args), ttyp, op, overloaded)

\* AnalyzeContext::disambiguate_op
disambiguate_op(s, ttyp, op, overloaded) ==
    IF s.refs[op.pos].value # 0 /\ IsOverloaded(arena, s.refs[op.pos].value)
        THEN Disambiguated(s, "Unambiguous", s.refs[op.pos].value, <<>>, FALSE)
    ELSE resolve(operand_types(s, op.args), ttyp, op, overloaded)

operator_result(r) ==
    CASE r.st = "Unambiguous" -> Known(r.s, Unambiguous(return_type(r.ent)))
      [] r.st = "Ambiguous"   -> Known(r.s, Ambiguous(ReturnTypes(r.cands)))
      [] r.st = "Unknown"     -> Unknown(r.s)

\* AnalyzeContext::operator_type
operator_type(s, op) ==
    IF Len(lookup_operator(s.scope, Len(op.args))) = 0
        THEN Unknown(Push(s, no_match(op.pos)))
    ELSE operator_result(
            disambiguate_op(s, 0, op, lookup_operator(s.scope, Len(op.args))))

\* AnalyzeContext::expr_pos_type
expr_pos_type(s, e) ==
    IF e.e = "Op" THEN operator_type(s, e)
    ELSE IF e.lit = "Missing" THEN Unknown(Push(s, Diag("No declaration of", e.pos, <<>>)))
    ELSE Known(s, LeafType(e))

\* expr_pos_with_ttyp on a literal, a name or an aggregate without elements
leaf_with_ttyp(s, target_type, e) ==
    IF e.lit = "Missing" THEN Push(s, Diag("No declaration of", e.pos, <<>>))
    ELSE IF e.lit = "Aggregate"
        THEN IF is_composite(base(target_type)) THEN s
             ELSE Push(s, Diag("composite does not match", e.pos, <<>>))
    ELSE IF is_possible(TRUE, LeafType(e), base(target_type)) THEN s
    ELSE Push(s, type_mismatch(e.pos))

\* expr_pos_with_ttyp, Binary and Unary arms, after disambiguate_op returned r
operator_checked(r, target_type, pos) ==
    CASE r.st = "Unambiguous" ->
            IF can_be_target_type(TRUE, return_type(r.ent), base(target_type))
               THEN r.s ELSE Push(r.s, type_mismatch(pos))
      [] r.st = "Ambiguous" -> Push(r.s, ambiguous_op(pos, r.cands))
      [] r.st = "Unknown"   -> r.s

op_with_ttyp(s, target_type, e) ==
    IF Len(lookup_operator(s.scope, Len(e.args))) = 0 THEN Push(s, no_match(e.pos))
    ELSE operator_checked(
            disambiguate_op(s, target_type, e, lookup_operator(s.scope, Len(e.args))),
            target_type, e.pos)

Logged(s, target_type, e) ==
    [s EXCEPT !.typed = Append(@, [pos |-> e.pos, ttyp |-> target_type])]

\* AnalyzeContext::expr_pos_with_ttyp
expr_pos_with_ttyp(s, target_type, e) ==
    IF e.e = "Leaf" THEN leaf_with_ttyp(Logged(s, target_type, e), target_type, e)
    ELSE op_with_ttyp(Logged(s, target_type, e), target_type, e)

\* AnalyzeContext::implicit_bool_types
implicit_bool_types(scope) ==
    { base(type_mark(arena, formals(scope[i])[1])) :
        i \in { j \in 1..Len(scope) : arena[scope[j]].des = "??" /\ Len(formals(scope[j])) >= 1 } }

\* boolean_expr after expr_type returned r; pick is the element that
\* iterating the set of ambiguous types yields first.
boolean_checked(r, e, pick) ==
    IF ~r.ok THEN r.s
    ELSE CASE r.t.tag = "Unambiguous" ->
                 IF base(r.t.typ) # base(BooleanId)
                    /\ base(r.t.typ) \notin implicit_bool_types(r.s.scope)
                    THEN Push(r.s, Diag("cannot be implictly converted to boolean", e.pos, <<>>))
                    ELSE r.s
           [] r.t.tag = "Ambiguous" ->
                 IF base(BooleanId) \in r.t.types
                    THEN expr_pos_with_ttyp(r.s, BooleanId, e)
                 ELSE IF Cardinality(implicit_bool_types(r.s.scope) \cap r.t.types) = 1
                    THEN expr_pos_with_ttyp(r.s, pick, e)
                 ELSE IF Cardinality(implicit_bool_types(r.s.scope) \cap r.t.types) > 1
                    THEN Push(r.s, Diag("Ambiguous use of implicit boolean conversion ??",
                                        e.pos, implicit_bool_types(r.s.scope) \cap r.t.types))
                 ELSE Push(r.s, Diag("Cannot disambiguate expression to boolean",
                                     e.pos, r.t.types))
           [] OTHER -> expr_pos_with_ttyp(r.s, BooleanId, e)

\* AnalyzeContext::boolean_expr
boolean_expr(s, e, pick) == boolean_checked(expr_pos_type(s, e), e, pick)

\* expr_unambiguous_type after expr_type returned r
unambiguous_checked(r, e) ==
    IF ~r.ok THEN Unknown(r.s)
    ELSE IF r.t.tag = "Unambiguous" THEN Known(r.s, r.t.typ)
    ELSE Unknown(Push(r.s, Diag("Ambiguous expression. You can use a qualified expression type'(expr) to disambiguate.",
                                e.pos, <<>>)))

\* AnalyzeContext::expr_unambiguous_type
expr_unambiguous_type(s, e) == unambiguous_checked(expr_pos_type(s, e), e)

\* integer_expr after expr_type returned r
integer_checked(r, e) ==
    IF ~r.ok THEN r.s
    ELSE CASE r.t.tag = "Unambiguous" ->
                 IF ~is_any_integer(base(r.t.typ))
                    THEN Push(r.s, Diag("Expected integer type, got", e.pos, <<r.t.typ>>))
                    ELSE r.s
           [] r.t.tag = "Ambiguous" ->
                 IF \E typ \in r.t.types : ~is_any_integer(typ)
                    THEN Push(r.s, Diag("Expected integer type", e.pos, <<>>))
                    ELSE r.s
           [] OTHER -> Push(r.s, Diag("Expected integer type, got", e.pos, <<r.t.tag>>))

\* AnalyzeContext::integer_expr
integer_expr(s, e) == integer_checked(expr_pos_type(s, e), e)
\* ------------------------------------------------- typing one expression
TargetTypes == {NaturalId, BooleanId, RealId}

CurrentOp == [refs |-> refs, diags |-> diagnostics, typed |-> typed, scope |-> region]

Observed(r) == [st |-> r.st, ent |-> r.ent, cands |-> r.cands, ran |-> r.ran]

\* What disambiguate_op returns for the root operator of expr when called
\* with this target type in state s.
RootDisamb(s, ttyp) ==
    IF Len(lookup_operator(s.scope, Len(expr.args))) = 0
        THEN [st |-> "NoCandidates", ent |-> 0, cands |-> <<>>, ran |-> FALSE]
    ELSE Observed(disambiguate_op(s, ttyp, expr,
                                  lookup_operator(s.scope, Len(expr.args))))

CommitOp(s, call, ttyp, res) ==
    /\ refs' = s.refs
    /\ diagnostics' = s.diags
    /\ typed' = s.typed
    /\ last' = [call |-> call, ttyp |-> ttyp]
    /\ result' = res
    /\ calls' = calls + 1
    /\ UNCHANGED <<declarations, idx, arena, region, incomplete_types, visited, status,
                    events, instVars, expr, sroot>>

CommitType(r) == CommitOp(r.s, "expr_type", 0, [ok |-> r.ok, t |-> r.t])

\* expr_type(scope, expr, diagnostics)
ExprType ==
    /\ status = "typing" /\ calls < MaxCalls
    /\ disamb' = RootDisamb(CurrentOp, 0)
    /\ CommitType(expr_pos_type(CurrentOp, expr))

\* expr_with_ttyp(scope, target_type, expr, diagnostics)
ExprWithTtyp ==
    /\ status = "typing" /\ calls < MaxCalls
    /\ \E target_type \in TargetTypes :
          /\ disamb' = RootDisamb(CurrentOp, target_type)
          /\ CommitOp(expr_pos_with_ttyp(CurrentOp, target_type, expr),
                      "expr_with_ttyp", target_type, [ok |-> TRUE, t |-> <<>>])

Picks(r) == IF r.ok /\ r.t.tag = "Ambiguous" THEN r.t.types ELSE {BooleanId}

\* boolean_expr(scope, expr, diagnostics)
BooleanExpr ==
    /\ status = "typing" /\ calls < MaxCalls
    /\ \E pick \in Picks(expr_pos_type(CurrentOp, expr)) :
          /\ disamb' = RootDisamb(CurrentOp, 0)
          /\ CommitOp(boolean_expr(CurrentOp, expr, pick),
                      "boolean_expr", 0, [ok |-> TRUE, t |-> <<>>])

\* operand_types(scope, operands, diagnostics) on the operands of expr
TypeOperands ==
    /\ status = "typing" /\ calls < MaxCalls
    /\ CommitOp(operand_types(CurrentOp, expr.args).s, "operand_types", 0,
                [ok |-> operand_types(CurrentOp, expr.args).ok,
                 t  |-> operand_types(CurrentOp, expr.args).types])
    /\ UNCHANGED disamb

\* expr_unambiguous_type(scope, expr, diagnostics)
ExprUnambiguousType ==
    /\ status = "typing" /\ calls < MaxCalls
    /\ disamb' = RootDisamb(CurrentOp, 0)
    /\ CommitOp(expr_unambiguous_type(CurrentOp, expr).s, "expr_unambiguous_type", 0,
                [ok |-> expr_unambiguous_type(CurrentOp, expr).ok,
                 t  |-> expr_unambiguous_type(CurrentOp, expr).t])

\* integer_expr(scope, expr, diagnostics)
IntegerExpr ==
    /\ status = "typing" /\ calls < MaxCalls
    /\ disamb' = RootDisamb(CurrentOp, 0)
    /\ CommitOp(integer_expr(CurrentOp, expr), "integer_expr", 0,
                [ok |-> TRUE, t |-> <<>>])

NextOperands == TypeOperands \/ ExprUnambiguousType \/ IntegerExpr
InitOp ==
    /\ declarations = <<>> /\ idx = 1 /\ incomplete_types = <<>> /\ visited = <<>>
    /\ arena = OpArena
    /\ \E S \in SUBSET PlusOverloads :
          /\ Cardinality(S) \in 1..MaxCands
          /\ region = InOrder(S \cup {QueQueId})
    /\ diagnostics = <<>>
    /\ expr \in ExprPool
    /\ refs = [p \in 1..NumOps(expr) |-> [value |-> 0, writes |-> 0]]
    /\ status = "typing" /\ events = <<>> /\ InstIdle
    /\ calls = 0 /\ typed = <<>> /\ last = <<>> /\ result = <<>> /\ disamb = <<>>
    /\ sroot = <<>>

NextOp == ExprType \/ ExprWithTtyp \/ BooleanExpr

\* --------------------------------- an element of a one-dimensional aggregate
MaxChoices == 2

\* A choice is Choice::Expression, Choice::DiscreteRange or Choice::Others.
\* A choice expression is the literal or name (lit, typ) and is either a
\* single index ("Index"), an expression that denotes a discrete range
\* ("RangeExpr") or an expression whose analysis as a range ends in an error
\* ("Error"); des is its designator when it is a simple name, "" otherwise.
\* A discrete range is a range between literals (lit = "Range") or the range
\* of the type that des names (lit = "Name", typ the type); res is the outcome
\* of its analysis: "ok", "err" (a diagnostic is reported and the analysis
\* goes on) or "fatal" (the error is returned to the caller).
Choice(c, lit, typ, des, res) ==
    [c |-> c, lit |-> lit, typ |-> typ, des |-> des, res |-> res]

\* the reference slot of a name in choice k of association i; slot 1 is that
\* of the operator of the value
ChoiceSlot(i, k) == 1 + (i - 1) * MaxChoices + k

drange_error(pos) == Diag("Invalid discrete range", pos, <<>>)

\* What the analysis of the discrete range at pos leaves: a diagnostic, the
\* reference of the type name written, or the error returned (ok = FALSE).
drange_analysed(s, drange, slot, pos) ==
    CASE drange.res = "fatal" -> [s |-> s, ok |-> FALSE]
      [] drange.res = "err"   -> [s |-> Push(s, drange_error(pos)), ok |-> TRUE]
      [] OTHER ->
            [s |-> IF drange.lit = "Name"
                      THEN set_unique_reference(s, slot, drange.typ) ELSE s,
             ok |-> TRUE]

\* AnalyzeContext::drange_with_ttyp: the range is analysed against target_type
\* (what is done with target_type is part of the outcome res)
drange_with_ttyp(s, target_type, drange, slot, pos) ==
    drange_analysed(s, drange, slot, pos)

\* AnalyzeContext::drange_unknown_type: the range is analysed without a target
drange_unknown_type(s, drange, slot, pos) == drange_analysed(s, drange, slot, pos)

\* the expression of choice k of association i
choice_expr(choice, i, k) == Leaf(10 * i + k, choice.lit, choice.typ)

\* ElementAssociation::Positional(expr), ElementAssociation::Named(choices, expr)
PositionalAssoc(value) == [e |-> "Positional", choices |-> <<>>, value |-> value]
NamedAssoc(choices, value) == [e |-> "Named", choices |-> choices, value |-> value]

\* for choice in choices: can_be_array after the choices k.., or the early
\* return at a choice that could not be analysed (ok: with Ok(()));
\* index_type is 0 for None
RECURSIVE choices_loop(_, _, _, _, _)

\* Choice::DiscreteRange, after drange_with_ttyp or drange_unknown_type returned r
choices_range(r, index_type, choices, k, can_be_array) ==
    IF r.ok THEN choices_loop(r.s, index_type, choices, k + 1, can_be_array)
    ELSE [s |-> r.s, can_be_array |-> can_be_array, returned |-> TRUE, ok |-> FALSE]

choices_loop(s, index_type, choices, k, can_be_array) ==
    IF k > Len(choices)
        THEN [s |-> s, can_be_array |-> can_be_array, returned |-> FALSE, ok |-> TRUE]
    ELSE CASE choices[k].c = "RangeExpr" ->
                 choices_loop(s, index_type, choices, k + 1, TRUE)
           [] choices[k].c = "Index" ->
                 choices_loop(IF index_type # 0
                                 THEN expr_pos_with_ttyp(s, index_type,
                                                         choice_expr(choices[k], 1, k))
                                 ELSE s,
                              index_type, choices, k + 1, FALSE)
           [] choices[k].c = "Error" ->
                 [s |-> Push(s, Diag("No declaration of", 10 + k, <<>>)),
                  can_be_array |-> can_be_array, returned |-> TRUE, ok |-> TRUE]
           [] choices[k].c = "DiscreteRange" ->
                 choices_range(IF index_type # 0
                                  THEN drange_with_ttyp(s, index_type, choices[k],
                                                        ChoiceSlot(1, k), 10 + k)
                                  ELSE drange_unknown_type(s, choices[k],
                                                           ChoiceSlot(1, k), 10 + k),
                               index_type, choices, k, can_be_array)
           [] choices[k].c = "Others" ->
                 choices_loop(s, index_type, choices, k + 1, FALSE)

\* if can_be_array, after expr_type returned r
value_with_ttyp(r, array_type, elem_type, value) ==
    IF ~r.ok THEN [s |-> r.s, ok |-> FALSE]
    ELSE IF is_possible(TRUE, r.t, base(elem_type))
            \/ ~is_possible(TRUE, r.t, base(array_type))
        THEN [s |-> expr_pos_with_ttyp(r.s, elem_type, value), ok |-> TRUE]
    ELSE [s |-> expr_pos_with_ttyp(r.s, array_type, value), ok |-> TRUE]

\* after the choices were analysed
assoc_value(c, array_type, elem_type, value) ==
    IF c.returned THEN [s |-> c.s, ok |-> c.ok]
    ELSE IF c.can_be_array
        THEN value_with_ttyp(expr_pos_type(c.s, value), array_type, elem_type, value)
    ELSE [s |-> expr_pos_with_ttyp(c.s, elem_type, value), ok |-> TRUE]

\* AnalyzeContext::analyze_1d_array_assoc_elem: the state it leaves and
\* whether it returned Ok(()) rather than Err(EvalError::Unknown)
analyze_1d_array_assoc_elem(s, array_type, index_type, elem_type, assoc) ==
    assoc_value(choices_loop(s, index_type, assoc.choices, 1, TRUE),
                array_type, elem_type, assoc.value)

ArrayTypes == {BitVectorId, StringId}

\* one element association of an aggregate typed against a one-dimensional array type
ArrayAssocElem ==
    /\ status = "typing" /\ calls = 0
    /\ \E array_type \in ArrayTypes :
       \* the index type of the array, None (0) when it did not resolve
       \E index_type \in {0, kind(array_type).indexes[1]} :
          CommitOp(analyze_1d_array_assoc_elem(CurrentOp, array_type, index_type,
                                               kind(array_type).elem_type, expr).s,
                   "analyze_1d_array_assoc_elem", array_type,
                   [ok |-> analyze_1d_array_assoc_elem(CurrentOp, array_type, index_type,
                                                       kind(array_type).elem_type, expr).ok,
                    t  |-> <<>>])
    /\ UNCHANGED disamb

\* AnalyzeContext::expr_pos_unknown_ttyp: the forward type is computed for
\* its diagnostics and references, and dropped
expr_pos_unknown_ttyp(s, e) == expr_pos_type(s, e).s

RECURSIVE aggregate_choices(_, _, _, _)
RECURSIVE analyze_aggregate(_, _, _)

\* Choice::DiscreteRange, after drange_unknown_type returned r
aggregate_range(r, choices, i, k) ==
    IF r.ok THEN aggregate_choices(r.s, choices, i, k + 1) ELSE r

\* analyze_aggregate, for choice in choices, from choice k of association i
\* on: only a discrete range is analysed
aggregate_choices(s, choices, i, k) ==
    IF k > Len(choices) THEN [s |-> s, ok |-> TRUE]
    ELSE IF choices[k].c = "DiscreteRange"
        THEN aggregate_range(drange_unknown_type(s, choices[k], ChoiceSlot(i, k), 10 * i + k),
                             choices, i, k)
    ELSE aggregate_choices(s, choices, i, k + 1)

\* after the choices of association i: its value is typed without a target
aggregate_value(r, assocs, i) ==
    IF ~r.ok THEN r
    ELSE analyze_aggregate(expr_pos_unknown_ttyp(r.s, assocs[i].value), assocs, i + 1)

\* AnalyzeContext::analyze_aggregate from association i on; ok = FALSE: the
\* error of a discrete range was returned
analyze_aggregate(s, assocs, i) ==
    IF i > Len(assocs) THEN [s |-> s, ok |-> TRUE]
    ELSE aggregate_value(aggregate_choices(s, assocs[i].choices, i, 1), assocs, i)

no_declaration_within(pos) == Diag("No declaration of within record", pos, <<>>)

\* elems.lookup(designator): the element of that name, 0 when there is none
elems_lookup(elems, des) ==
    IF \E j \in 1..Len(elems) : arena[elems[j]].des = des
        THEN elems[CHOOSE j \in 1..Len(elems) : arena[elems[j]].des = des]
        ELSE 0

\* analyze_record_aggregate, the element named by the association i: only a
\* single choice that is a simple name of an element names one
record_elem(s, elems, assoc, i) ==
    IF assoc.e = "Positional" \/ Len(assoc.choices) # 1 THEN [s |-> s, elem |-> 0]
    ELSE IF assoc.choices[1].c \in {"DiscreteRange", "Others"} THEN [s |-> s, elem |-> 0]
    ELSE IF assoc.choices[1].des = ""
        THEN [s |-> Push(s, Diag("Record aggregate choice must be a simple name",
                                 10 * i + 1, <<>>)),
              elem |-> 0]
    ELSE IF elems_lookup(elems, assoc.choices[1].des) = 0
        THEN [s |-> Push(s, no_declaration_within(10 * i + 1)), elem |-> 0]
    ELSE [s |-> set_unique_reference(s, ChoiceSlot(i, 1),
                                     elems_lookup(elems, assoc.choices[1].des)),
          elem |-> elems_lookup(elems, assoc.choices[1].des)]

\* the value of the association, after its choice was looked up
record_value(r, value) ==
    IF r.elem # 0 THEN expr_pos_with_ttyp(r.s, type_mark(arena, r.elem), value)
    ELSE expr_pos_unknown_ttyp(r.s, value)

\* AnalyzeContext::analyze_record_aggregate from association i on
RECURSIVE analyze_record_aggregate(_, _, _, _)
analyze_record_aggregate(s, elems, assocs, i) ==
    IF i > Len(assocs) THEN s
    ELSE analyze_record_aggregate(
            record_value(record_elem(s, elems, assocs[i], i), assocs[i].value),
            elems, assocs, i + 1)

\* Allocator::Qualified(type_mark'(expr)) and Allocator::Subtype(type_mark);
\* the type mark is the type it resolves to, 0 when it names nothing visible
QualifiedAlloc(tm, e) == [a |-> "Qualified", type_mark |-> tm, expr |-> e]
SubtypeAlloc(tm)      == [a |-> "Subtype", type_mark |-> tm, expr |-> <<>>]
\* the error of resolve_type_mark and of resolve_subtype_indication for a type
\* mark that names nothing visible
type_mark_error == Diag("No declaration of", 9, <<>>)

\* AnalyzeContext::analyze_qualified_expression
analyze_qualified_expression(s, qexpr) ==
    IF qexpr.type_mark # 0
        THEN Known(expr_pos_with_ttyp(s, qexpr.type_mark, qexpr.expr), qexpr.type_mark)
        ELSE Unknown(Push(expr_pos_unknown_ttyp(s, qexpr.expr),
                          type_mark_error))

\* AnalyzeContext::analyze_allocation
analyze_allocation(s, alloc) ==
    IF alloc.a = "Qualified" THEN analyze_qualified_expression(s, alloc).s
    ELSE IF alloc.type_mark = 0 THEN Push(s, type_mark_error)
    ELSE s

\* the associations that may follow the association expr in an aggregate
MoreAssocs ==
    { <<>>,
      << PositionalAssoc(Leaf(3, "Integer", 0)) >>,
      << NamedAssoc(<< Choice("Index", "Name", IntegerId, "arg", "ok") >>,
                    Leaf(3, "Missing", 0)) >>,
      << NamedAssoc(<< Choice("DiscreteRange", "Name", NaturalId, "natural", "ok") >>,
                    Leaf(3, "Integer", 0)) >> }

\* analyze_aggregate(scope, assocs, diagnostics) on an aggregate that starts
\* with the association expr
AnalyzeAggregate ==
    /\ status = "typing" /\ calls = 0
    /\ \E more \in MoreAssocs :
          CommitOp(analyze_aggregate(CurrentOp, <<expr>> \o more, 1).s,
                   "analyze_aggregate", 0,
                   [ok |-> analyze_aggregate(CurrentOp, <<expr>> \o more, 1).ok,
                    t  |-> <<>>])
    /\ UNCHANGED disamb

\* analyze_record_aggregate(scope, record_type, elems, assocs, diagnostics)
\* against rec_t
AnalyzeRecordAggregate ==
    /\ status = "typing" /\ calls = 0
    /\ \E more \in MoreAssocs :
          CommitOp(analyze_record_aggregate(CurrentOp, kind(RecId).elems,
                                            <<expr>> \o more, 1),
                   "analyze_record_aggregate", RecId, [ok |-> TRUE, t |-> <<>>])
    /\ UNCHANGED disamb

\* analyze_allocation(scope, alloc, diagnostics) on `new type_mark'(value)` and
\* on `new type_mark`
AnalyzeAllocation ==
    /\ status = "typing" /\ calls = 0
    /\ \E tm \in {0, IntegerId, BitVectorId} :
       \E alloc \in {QualifiedAlloc(tm, expr.value), SubtypeAlloc(tm)} :
          CommitOp(analyze_allocation(CurrentOp, alloc),
                   "analyze_allocation", tm, [ok |-> TRUE, t |-> <<>>])
    /\ UNCHANGED disamb

\* the values associated: literals, names of objects of an element type and of
\* an array type, a name that is not visible, and + applied to a bit_vector
AssocValues ==
    { MkLeaf(2, f) : f \in { <<"String", 0>>, <<"Integer", 0>>, <<"Missing", 0>>,
                             <<"Name", CharacterId>>, <<"Name", BitId>>,
                             <<"Name", StringId>>, <<"Name", BitVectorId>> } }
    \cup { Op(1, << MkLeaf(2, <<"Name", BitVectorId>>) >>) }

\* the choices: 0, "01", the objects arg and zz of type integer, the subtype
\* natural, a name that is not visible, the discrete ranges `0 to 1` (with
\* each outcome of its analysis) and `natural range 0 to 1`, and others
ChoicePool ==
    { Choice("Index", "Integer", 0, "", "ok"), Choice("Index", "String", 0, "", "ok"),
      Choice("Index", "Name", IntegerId, "arg", "ok"),
      Choice("Index", "Name", IntegerId, "zz", "ok"),
      Choice("RangeExpr", "Name", NaturalId, "natural", "ok"),
      Choice("Error", "Missing", 0, "missing", "err"),
      Choice("DiscreteRange", "Range", 0, "", "ok"),
      Choice("DiscreteRange", "Range", 0, "", "err"),
      Choice("DiscreteRange", "Range", 0, "", "fatal"),
      Choice("DiscreteRange", "Name", NaturalId, "natural", "ok"),
      Choice("Others", "", 0, "", "ok") }

InitAggregate ==
    /\ declarations = <<>> /\ idx = 1 /\ incomplete_types = <<>> /\ visited = <<>>
    /\ arena = OpArena
    /\ region \in { InOrder({26, QueQueId}), InOrder({25, 26, QueQueId}) }
    /\ diagnostics = <<>>
    /\ \E value \in AssocValues :
          \/ expr = PositionalAssoc(value)
          \/ \E n \in 1..MaxChoices : \E choices \in [1..n -> ChoicePool] :
                expr = NamedAssoc(choices, value)
    /\ refs = [p \in 1..ChoiceSlot(2, MaxChoices) |-> [value |-> 0, writes |-> 0]]
    /\ status = "typing" /\ events = <<>> /\ InstIdle
    /\ calls = 0 /\ typed = <<>> /\ last = <<>> /\ result = <<>> /\ disamb = <<>>
    /\ sroot = <<>>

NextAggregate ==
    ArrayAssocElem \/ AnalyzeAggregate \/ AnalyzeRecordAggregate \/ AnalyzeAllocation
\* ------------------------------------------------------ typing a literal
Literals == {"Integer", "Real", "String", "BitString", "Null", "Aggregate"}

\* expr_type(scope, expr, diagnostics) on a literal or an aggregate
LiteralType ==
    /\ status = "typing" /\ expr # <<>> /\ expr.e = "Leaf" /\ calls = 0
    /\ UNCHANGED disamb
    /\ CommitType(expr_pos_type(CurrentOp, expr))

\* match_type of the forward type against a base type
MatchType ==
    /\ status = "typing" /\ expr # <<>> /\ expr.e = "Leaf" /\ calls = 1
    /\ \E ttyp \in BaseTypes :
          /\ last' = [call |-> "match_type", ttyp |-> ttyp]
          /\ result' = [ok |-> match_type(result.t, ttyp), t |-> result.t]
    /\ calls' = calls + 1
    /\ UNCHANGED <<declVars, instVars, expr, typed, disamb, sroot>>

InitLiteral ==
    /\ declarations = <<>> /\ idx = 1 /\ incomplete_types = <<>> /\ visited = <<>>
    /\ arena = OpArena
    /\ \E S \in SUBSET (PlusOverloads \cup {QueQueId}) :
          /\ Cardinality(S) <= MaxCands
          /\ region = InOrder(S)
    /\ diagnostics = <<>>
    /\ \E lit \in Literals : expr = Leaf(1, lit, 0)
    /\ refs = << [value |-> 0, writes |-> 0] >>
    /\ status = "typing" /\ events = <<>> /\ InstIdle
    /\ calls = 0 /\ typed = <<>> /\ last = <<>> /\ result = <<>> /\ disamb = <<>>
    /\ sroot = <<>>

NextLiteral == LiteralType \/ MatchType

\* --------------------------------------------------- the return statement
\* ret.pos, the position of the return statement
ReturnPos == 10

\* enum SequentialRoot
SequentialRoot(root, typ) == [root |-> root, typ |-> typ]

\* The root of a subprogram body: Function(return type) or Procedure for a
\* signature that was analysed, Unknown for one that was not.
body_root(signature) ==
    IF ~signature.ok THEN SequentialRoot("Unknown", 0)
    ELSE IF signature.return_type # 0
        THEN SequentialRoot("Function", signature.return_type)
    ELSE SequentialRoot("Procedure", 0)

Signatures == [ok : {TRUE}, return_type : {0, IntegerId, BooleanId, RealId}]
                  \cup [ok : {FALSE}, return_type : {0}]
SequentialRoots == { body_root(sig) : sig \in Signatures }
                       \cup { SequentialRoot("Process", 0) }

\* A variant that rejects every return statement of a procedure.
return_statement_strict(s, root, expression) ==
    CASE root.root = "Function" ->
            IF expression # <<>> THEN expr_pos_with_ttyp(s, root.typ, expression)
            ELSE Push(s, Diag("Functions cannot return without a value", ReturnPos, <<>>))
      [] root.root = "Procedure" ->
            Push(s, Diag("Procedures cannot return a value", ReturnPos, <<>>))
      [] root.root = "Process" ->
            Push(s, Diag("Cannot return from a process", ReturnPos, <<>>))
      [] root.root = "Unknown" ->
            IF expression # <<>> THEN expr_pos_type(s, expression).s ELSE s

\* analyze_sequential_statement, SequentialStatement::Return
\* (expression = <<>>: a return without a value)
return_statement(s, root, expression) ==
    CASE root.root = "Function" ->
            IF expression # <<>> THEN expr_pos_with_ttyp(s, root.typ, expression)
            ELSE Push(s, Diag("Functions cannot return without a value", ReturnPos, <<>>))
      [] root.root = "Procedure" ->
            IF expression # <<>>
                THEN Push(s, Diag("Procedures cannot return a value", ReturnPos, <<>>))
                ELSE s
      [] root.root = "Process" ->
            Push(s, Diag("Cannot return from a process", ReturnPos, <<>>))
      [] root.root = "Unknown" ->
            IF expression # <<>> THEN expr_pos_type(s, expression).s ELSE s

Return ==
    /\ status = "typing" /\ sroot # <<>> /\ calls = 0
    /\ UNCHANGED disamb
    /\ CommitOp(return_statement(CurrentOp, sroot, expr), "return", sroot.typ,
                [ok |-> TRUE, t |-> <<>>])

\* the expressions returned: the operator applications with leaf operands
ReturnExprs == { e \in ExprPool : NumOps(e) = 1 }

InitReturn ==
    /\ declarations = <<>> /\ idx = 1 /\ incomplete_types = <<>> /\ visited = <<>>
    /\ arena = OpArena
    /\ \E S \in SUBSET PlusOverloads :
          /\ Cardinality(S) = 2
          /\ 19 \in S
          /\ region = InOrder(S \cup {QueQueId})
    /\ diagnostics = <<>>
    /\ expr \in ReturnExprs \cup {<<>>}
    /\ refs = << [value |-> 0, writes |-> 0] >>
    /\ status = "typing" /\ events = <<>> /\ InstIdle
    /\ calls = 0 /\ typed = <<>> /\ last = <<>> /\ result = <<>> /\ disamb = <<>>
    /\ sroot \in SequentialRoots

NextReturn == Return

\* ============================================ generic package instantiation
\* The operators below thread a record s = [arena, events]; a result is
\* [ok, s, v] with v the value of an Ok or the message of an Err.
OkV(s, v)    == [ok |-> TRUE, s |-> s, v |-> v]
ErrV(s, msg) == [ok |-> FALSE, s |-> s, v |-> msg]

\* A variant that never consults the generic map.
map_type_ent_unmapped(s, m, typ) == OkV(s, typ)

\* map_type_ent: the actual of a generic type the map binds, the type itself otherwise
map_type_ent(s, m, typ) ==
    IF typ \in DOMAIN m
        THEN IF IsType(s.arena, m[typ]) THEN OkV(s, m[typ])
             ELSE ErrV(s, "Internal error when mapping type, expected type")
    ELSE OkV(s, typ)

\* map_subtype: Subtype { type_mark }
map_subtype(s, m, subtype) == map_type_ent(s, m, subtype)

\* The kind kd with its field f replaced by the value of an Ok.
WithField(r, kd, f) ==
    IF r.ok THEN OkV(r.s, [kd EXCEPT ![f] = r.v]) ELSE r

\* map_object: the object with its subtype mapped
map_object(s, m, obj) == WithField(map_subtype(s, m, obj.subtype), obj, "subtype")

\* Some(map_type_ent(..)?.base()) for an index or a loop parameter, None for None
map_base_type(s, m, typ) ==
    IF typ = 0 THEN OkV(s, 0)
    ELSE IF map_type_ent(s, m, typ).ok
        THEN OkV(s, base_type(s.arena, map_type_ent(s, m, typ).v))
    ELSE map_type_ent(s, m, typ)

\* Type::Array: every index mapped to the base type of its image, the element
\* type mapped
map_array(s, m, typ) ==
    LET ix == [n \in 1..Len(typ.indexes) |-> map_base_type(s, m, typ.indexes[n])]
        el == map_type_ent(s, m, typ.elem_type)
        failed == { n \in 1..Len(ix) : ~ix[n].ok }
    IN  IF failed # {} THEN ix[CHOOSE n \in failed : \A k \in failed : n <= k]
        ELSE IF ~el.ok THEN el
        ELSE OkV(s, ArrayKind([n \in 1..Len(ix) |-> ix[n].v], el.v))

RECURSIVE instantiate(_, _, _)
RECURSIVE instantiated(_, _, _)
RECURSIVE instantiate_implicits(_, _, _, _, _)
RECURSIVE implicit_added(_, _, _, _, _)
RECURSIVE instantiate_each(_, _, _, _, _)
RECURSIVE each_instantiated(_, _, _, _, _)
RECURSIVE map_region_loop(_, _, _, _, _)
RECURSIVE map_region_add(_, _, _, _, _)
RECURSIVE map_region(_, _, _)
RECURSIVE map_signature(_, _, _)
RECURSIVE map_overloaded(_, _, _)
RECURSIVE map_type(_, _, _)
RECURSIVE map_kind(_, _, _)

\* for uninst in entities { push(instantiate(mapping, uninst)?) }
instantiate_each(s, m, entities, k, acc) ==
    IF k > Len(entities) THEN OkV(s, acc)
    ELSE each_instantiated(instantiate(s, m, entities[k]), m, entities, k, acc)

each_instantiated(r, m, entities, k, acc) ==
    IF ~r.ok THEN r
    ELSE instantiate_each(r.s, m, entities, k + 1, Append(acc, r.v))

\* uninst_entities.iter(): the region name by name, the names in the order of
\* their first insertion, the overloads of a name together in insertion order
RECURSIVE named_entities(_, _)
named_entities(ar, reg) ==
    IF reg = <<>> THEN <<>>
    ELSE SelectSeq(reg, LAMBDA e : ar[e].des = ar[reg[1]].des)
         \o named_entities(ar, SelectSeq(reg, LAMBDA e : ar[e].des # ar[reg[1]].des))

\* for (_, uninst) in uninst_entities.iter(): a Single is instantiated and
\* added, the entities of an Overloaded are, one after the other
map_region_loop(s, m, uninst_entities, rid, k) ==
    IF k > Len(uninst_entities) THEN OkV(s, into_region(s.events, rid))
    ELSE map_region_add(instantiate(s, m, uninst_entities[k]), m, uninst_entities, rid, k)

map_region_add(r, m, uninst_entities, rid, k) ==
    IF ~r.ok THEN r
    ELSE map_region_loop(NestedAdd(r.s, rid, r.v, "null"), m, uninst_entities, rid, k + 1)


\* A variant that keeps every instantiated member.
map_region_unchecked(s, m, uninst_region) ==
    instantiate_each(s, m, named_entities(s.arena, uninst_region), 1, <<>>)

\* map_region: the members instantiated and added to a fresh region
map_region(s, m, uninst_region) ==
    map_region_loop(nested(s, "map_region"), m, named_entities(s.arena, uninst_region),
                    NumRegions(s.events) + 1, 1)

\* map_signature: the formals instantiated, the return type mapped
signature_mapped(r, m, kd) ==
    IF ~r.ok THEN r
    ELSE IF kd.ret = 0 THEN OkV(r.s, OverloadedKind(kd.o, r.v, 0))
    ELSE IF map_type_ent(r.s, m, kd.ret).ok
        THEN OkV(r.s, OverloadedKind(kd.o, r.v, map_type_ent(r.s, m, kd.ret).v))
    ELSE map_type_ent(r.s, m, kd.ret)

map_signature(s, m, kd) ==
    signature_mapped(instantiate_each(s, m, kd.formals, 1, <<>>), m, kd)

\* Overloaded::Alias: the instance of the aliased entity, which must be
\* overloaded, is what the instantiated alias denotes
alias_instantiated(r) ==
    IF ~r.ok THEN r
    ELSE IF ~IsOverloaded(r.s.arena, r.v)
        THEN ErrV(r.s, "Internal error, expected overloaded when instantiating overloaded entity")
    ELSE OkV(r.s, OverloadedAliasKind(r.s.arena, r.v))

\* map_overloaded: the signature of a SubprogramDecl, Subprogram,
\* InterfaceSubprogram or EnumLiteral is mapped, the entity an Alias denotes
\* is instantiated
map_overloaded(s, m, kd) ==
    IF kd.o = "Alias" THEN alias_instantiated(instantiate(s, m, kd.aliased))
    ELSE map_signature(s, m, kd)

\* map_type
map_type(s, m, typ) ==
    CASE typ.t = "Array"     -> map_array(s, m, typ)
      [] typ.t \in {"Access", "Subtype"}
                             -> WithField(map_subtype(s, m, typ.subtype), typ, "subtype")
      [] typ.t = "Record"    -> WithField(instantiate_each(s, m, typ.elems, 1, <<>>),
                                          typ, "elems")
      [] typ.t = "Protected" -> WithField(map_region(s, m, typ.region),
                                          ProtectedKind(<<>>, 0), "region")
      [] typ.t = "Alias"     -> WithField(map_type_ent(s, m, typ.typ), typ, "typ")
      [] OTHER               -> OkV(s, typ)

\* Design::describe
describe(d) ==
    CASE d = "Entity"          -> "entity"
      [] d = "Configuration"   -> "configuration"
      [] d = "Package"         -> "package"
      [] d = "UninstPackage"   -> "uninstantiated package"
      [] d = "PackageInstance" -> "package instance"
      [] d = "Context"         -> "context"

\* ObjectAlias: the base object instantiated, which must be an object, and the
\* type mark mapped
object_alias(r, m, kd) ==
    IF ~r.ok THEN r
    ELSE IF r.s.arena[r.v].kind.k # "Object"
        THEN ErrV(r.s, "Internal error, expected instantiated object to be object")
    ELSE WithField(map_type_ent(r.s, m, kd.type_mark),
                   [kd EXCEPT !.base_object = r.v], "type_mark")

\* map_kind
map_kind(s, m, kd) ==
    CASE kd.k = "ExternalAlias"      -> WithField(map_type_ent(s, m, kd.type_mark),
                                                  kd, "type_mark")
      [] kd.k = "ObjectAlias"        -> object_alias(instantiate(s, m, kd.base_object), m, kd)
      [] kd.k = "File"               -> WithField(map_subtype(s, m, kd.subtype), kd, "subtype")
      [] kd.k = "InterfaceFile"      -> WithField(map_type_ent(s, m, kd.typ), kd, "typ")
      [] kd.k = "Component"          -> WithField(map_region(s, m, kd.region), kd, "region")
      [] kd.k = "Attribute"          -> WithField(map_type_ent(s, m, kd.typ), kd, "typ")
      [] kd.k = "Overloaded"         -> map_overloaded(s, m, kd)
      [] kd.k = "Type"               -> map_type(s, m, kd)
      [] kd.k = "ElementDeclaration" -> WithField(map_subtype(s, m, kd.subtype), kd, "subtype")
      [] kd.k = "Label"              -> OkV(s, kd)
      [] kd.k = "Object"             -> map_object(s, m, kd)
      [] kd.k = "LoopParameter"      -> WithField(map_base_type(s, m, kd.typ), kd, "typ")
      [] kd.k = "PhysicalLiteral"    -> WithField(map_type_ent(s, m, kd.typ), kd, "typ")
      [] kd.k = "DeferredConstant"   -> WithField(map_subtype(s, m, kd.subtype), kd, "subtype")
      [] kd.k = "Library"            -> OkV(s, kd)
      [] kd.k = "Design" ->
            IF kd.d = "PackageInstance"
                THEN WithField(map_region(s, m, kd.region), kd, "region")
                ELSE ErrV(s, "Internal error, did not expect to instantiate "
                             \o describe(kd.d))

\* A variant that leaves out an implicit that cannot be instantiated.
implicit_added_skip(r, m, uninst, inst, k) ==
    IF ~r.ok THEN instantiate_implicits(r.s, m, uninst, inst, k + 1)
    ELSE instantiate_implicits(add_implicit(r.s, inst, r.v), m, uninst, inst, k + 1)
\* for implicit_uninst in uninst.implicits { add_implicit(inst, instantiate(..)?) }
instantiate_implicits(s, m, uninst, inst, k) ==
    IF k > Len(s.arena[uninst].implicits) THEN OkV(s, inst)
    ELSE implicit_added(instantiate(s, m, s.arena[uninst].implicits[k]), m, uninst, inst, k)

implicit_added(r, m, uninst, inst, k) ==
    IF ~r.ok THEN r
    ELSE instantiate_implicits(add_implicit(r.s, inst, r.v), m, uninst, inst, k + 1)

\* arena.alloc(designator, Related::InstanceOf(uninst), kind, decl_pos)
instantiated(r, m, uninst) ==
    IF ~r.ok THEN r
    ELSE instantiate_implicits(
             Alloc(r.s, AnyEnt(r.s.arena[uninst].des, r.v, r.s.arena[uninst].pos,
                               "InstanceOf", uninst)),
             m, uninst, Len(r.s.arena) + 1, 1)

\* instantiate
instantiate(s, m, uninst) == instantiated(map_kind(s, m, s.arena[uninst].kind), m, uninst)

\* ------------------------------------------- the uninstantiated package
\* package gpkg is generic (type u_t; type v_t; g_c : natural); ...
\* Its entities follow the standard ones in the arena.
GenU == Len(OpArena) + 1
GenV == GenU + 1
PkgEnts ==
    << [AnyEnt("u_t", TypeKind("Interface"), 1, "None", 0) EXCEPT !.implicits = <<33>>],
       [AnyEnt("v_t", TypeKind("Interface"), 2, "None", 0) EXCEPT !.implicits = <<34>>],
       AnyEnt("a", ObjectKind(GenU), 3, "None", 0),                          \* 31
       AnyEnt("b", ObjectKind(GenV), 3, "None", 0),                          \* 32
       AnyEnt("=", OverloadedKind("SubprogramDecl", <<31, 31>>, BooleanId),
              1, "ImplicitOf", GenU),                                        \* 33
       AnyEnt("=", OverloadedKind("SubprogramDecl", <<32, 32>>, BooleanId),
              2, "ImplicitOf", GenV),                                        \* 34
       AnyEnt("n", ObjectKind(NaturalId), 3, "None", 0),                     \* 35
       AnyEnt("c", ObjectKind(GenU), 4, "None", 0),                          \* 36
       AnyEnt("f", OverloadedKind("SubprogramDecl", <<31, 35>>, GenU),
              5, "None", 0),                                                 \* 37
       AnyEnt("arr_t", ArrayKind(<<GenU>>, GenV), 6, "None", 0),             \* 38
       AnyEnt("e", ElementKind(GenU), 7, "None", 0),                         \* 39
       AnyEnt("rec_t", RecordKind(<<39>>), 7, "None", 0),                    \* 40
       AnyEnt("ptr_t", SubtypeOf("Access", GenU), 8, "None", 0),             \* 41
       AnyEnt("sub_t", SubtypeOf("Subtype", GenU), 9, "None", 0),            \* 42
       AnyEnt("ali_t", [k |-> "Type", t |-> "Alias", typ |-> GenU], 10, "None", 0), \* 43
       AnyEnt("p", OverloadedKind("SubprogramDecl", <<31>>, 0), 11, "None", 0),     \* 44
       AnyEnt("p", OverloadedKind("SubprogramDecl", <<32>>, 0), 11, "None", 0),     \* 45
       \* procedure p (a : u_t); function f ...; procedure p (b : v_t);
       AnyEnt("prot_t", ProtectedKind(<<44, 37, 45>>, 0), 11, "None", 0),    \* 46
       AnyEnt("x", ObjectKind(GenU), 12, "None", 0),                         \* 47
       AnyEnt("comp", ComponentKind(<<47>>), 12, "None", 0),                 \* 48
       AnyEnt("nested_pkg", DesignKind("Package", <<>>), 13, "None", 0),     \* 49
       AnyEnt("d", ObjectKind(GenV), 14, "None", 0),                         \* 50
       AnyEnt("inst_pkg", DesignKind("PackageInstance", <<50>>), 14, "None", 0),    \* 51
       AnyEnt("w", ObjectKind(38), 15, "None", 0),                           \* 52
       AnyEnt("g", OverloadedKind("SubprogramDecl", <<52>>, IntegerId),
              15, "None", 0) >>                                              \* 53

PkgArena == OpArena \o PkgEnts

\* the members of the package that are not generics (to_package_generic)
MemberPool == {33, 34, 36, 37, 38, 40, 41, 42, 43, 46, 48, 49, 51, 53, 69, 71, 72, 73}

\* the types a generic map binds a generic type to
ActualTypes == {IntegerId, NaturalId, BooleanId}

\* ------------------------------------- operators on character and integer
\* function "+"(a : integer; b : character) return character;   -- 55
\* function "+"(a : integer; b : character) return integer;     -- 56
\* function "+"(a : integer) return integer;                    -- 57
\* function "+"(a, b : universal_integer) return integer;       -- 58
\* They follow the entities of the package in the arena (54: the formal b).
StepEnts ==
    << Formal(CharacterId),
       Function("+", <<13, 54>>, CharacterId),
       Function("+", <<13, 54>>, IntegerId),
       Function("+", <<13>>, IntegerId),
       Function("+", <<15, 15>>, IntegerId) >>

StepArena == PkgArena \o StepEnts

StepOverloads == {19, 20, 21, 22, 27, 55, 56, 57, 58}

\* 1, 0 + 'c', 0 + 0, i + i, i and n + 0 under the operator; 'c' is the one
\* literal of its name, of type character
StepExprs ==
    { Op(1, <<MkLeaf(2, <<"Integer", 0>>)>>),
      Op(1, <<MkLeaf(2, <<"Integer", 0>>), MkLeaf(3, <<"Name", CharacterId>>)>>),
      Op(1, <<MkLeaf(2, <<"Integer", 0>>), MkLeaf(3, <<"Integer", 0>>)>>),
      Op(1, <<MkLeaf(2, <<"Name", IntegerId>>), MkLeaf(3, <<"Name", IntegerId>>)>>),
      Op(1, <<MkLeaf(2, <<"Name", IntegerId>>)>>),
      Op(1, <<MkLeaf(2, <<"Name", NaturalId>>), MkLeaf(3, <<"Integer", 0>>)>>) }

InitSteps ==
    /\ declarations = <<>> /\ idx = 1 /\ incomplete_types = <<>> /\ visited = <<>>
    /\ arena = StepArena
    /\ \E S \in SUBSET StepOverloads :
          /\ Cardinality(S) \in 1..MaxCands
          /\ region = InOrder(S \cup {QueQueId})
    /\ diagnostics = <<>>
    /\ expr \in StepExprs
    /\ refs = << [value |-> 0, writes |-> 0] >>
    /\ status = "typing" /\ events = <<>> /\ InstIdle
    /\ calls = 0 /\ typed = <<>> /\ last = <<>> /\ result = <<>> /\ disamb = <<>>
    /\ sroot = <<>>

\* --------------------------------------- declarations with implicit children
\* type arr2_t is array (integer range <>) of v_t;  -- 62, implicit "=" and "/="
\* type file_t is file of u_t;                  -- 65, implicit read and endfile
\* They follow the operators above in the arena.
ImplEnts ==
    << AnyEnt("l", ObjectKind(62), 16, "None", 0),                           \* 59
       AnyEnt("=", OverloadedKind("SubprogramDecl", <<59, 59>>, BooleanId),
              16, "ImplicitOf", 62),                                         \* 60
       AnyEnt("/=", OverloadedKind("SubprogramDecl", <<59, 59>>, BooleanId),
              16, "ImplicitOf", 62),                                         \* 61
       [AnyEnt("arr2_t", ArrayKind(<<IntegerId>>, GenV), 16, "None", 0)
            EXCEPT !.implicits = <<60, 61>>],                                \* 62
       AnyEnt("v", ObjectKind(GenU), 17, "None", 0),                         \* 63
       AnyEnt("f", ObjectKind(65), 17, "None", 0),                           \* 64
       [AnyEnt("file_t", TypeKind("File"), 17, "None", 0)
            EXCEPT !.implicits = <<66, 67>>],                                \* 65
       AnyEnt("endfile", OverloadedKind("SubprogramDecl", <<64>>, BooleanId),
              17, "ImplicitOf", 65),                                         \* 66
       AnyEnt("read", OverloadedKind("SubprogramDecl", <<64, 63>>, 0),
              17, "ImplicitOf", 65),                                         \* 67
       \* the third generic of the package, the constant g_c : natural
       AnyEnt("g_c", ObjectKind(NaturalId), 2, "None", 0),                   \* 68
       \* file fo : u_t;  procedure rd (file fi : v_t);  alias oa : u_t is c;
       AnyEnt("fo", FileKind(GenU), 18, "None", 0),                          \* 69
       AnyEnt("fi", InterfaceFileKind(GenV), 19, "None", 0),                 \* 70
       AnyEnt("rd", OverloadedKind("SubprogramDecl", <<70>>, 0), 19, "None", 0), \* 71
       AnyEnt("oa", ObjectAliasKind(36, GenU), 20, "None", 0),               \* 72
       \* alias al is f;
       AnyEnt("al", OverloadedAliasKind(PkgArena, 37), 21, "None", 0) >>     \* 73

ImplArena == StepArena \o ImplEnts

\* members with and without implicit children, one with a region and one that
\* cannot be instantiated
ImplMembers == {36, 37, 46, 49, 62, 65}

\* what a formal-to-actual map may hold: the types, and an entity that is no
\* type (the object n), the case map_type_ent rejects
Actuals == ActualTypes \cup {35}
\* ------------------------------------------------ generic_package_instance
\* unit.ident.tree.pos, the identifier of the instance
InstancePos == 100

CurrentInst == [arena |-> arena, events |-> events]

\* A variant that leaves the related location out.
instantiation_error_unrelated(err, uninst) == Diag(err, InstancePos, 0)

\* Diagnostic::error(&unit.ident.tree.pos, err), with the declaration's position
\* as related location when it has one (position 0: none)
instantiation_error(err, uninst) == Diag(err, InstancePos, arena[uninst].pos)

\* A variant that enters the instance into the map, for the members after it.
Instantiated_remapping(r) ==
    /\ arena' = r.s.arena
    /\ IF r.ok
          THEN /\ events' = NestedAdd(r.s, 1, r.v, "null").events
               /\ region' = into_region(events', 1)
               /\ mapping' = [k \in DOMAIN mapping \cup {members[inst_idx]} |->
                                 IF k = members[inst_idx] THEN r.v ELSE mapping[k]]
               /\ UNCHANGED diagnostics
          ELSE /\ events' = r.s.events
               /\ UNCHANGED <<region, mapping>>
               /\ diagnostics' = Append(diagnostics,
                                        instantiation_error(r.v, members[inst_idx]))
    /\ inst_idx' = inst_idx + 1
    /\ status' = IF inst_idx = Len(members) THEN "instantiated" ELSE status
    /\ UNCHANGED <<declarations, idx, incomplete_types, refs, visited, opVars,
                   members, unit>>
\* A variant whose add reports a collision to the caller's sink.
Instantiated_reporting(r) ==
    /\ arena' = r.s.arena
    /\ IF r.ok
          THEN /\ events' = NestedAdd(r.s, 1, r.v, "null").events
               /\ region' = into_region(events', 1)
               /\ diagnostics' =
                     IF RegionAdd(r.s.arena, region, r.v).ok THEN diagnostics
                     ELSE Append(diagnostics,
                                 duplicate_error(r.s.arena[r.v].pos,
                                                 RegionAdd(r.s.arena, region, r.v).prev))
          ELSE /\ events' = r.s.events
               /\ UNCHANGED region
               /\ diagnostics' = Append(diagnostics,
                                        instantiation_error(r.v, members[inst_idx]))
    /\ inst_idx' = inst_idx + 1
    /\ status' = IF inst_idx = Len(members) THEN "instantiated" ELSE status
    /\ UNCHANGED <<declarations, idx, incomplete_types, refs, visited, opVars,
                   mapping, members, unit>>
\* Ok(inst): nested.add(inst, NullDiagnostics); Err(err): a diagnostic related
\* to the declaration that could not be instantiated
Instantiated(r) ==
    /\ arena' = r.s.arena
    /\ IF r.ok
          THEN /\ events' = NestedAdd(r.s, 1, r.v, "null").events
               /\ region' = into_region(events', 1)
               /\ UNCHANGED diagnostics
          ELSE /\ events' = r.s.events
               /\ UNCHANGED region
               /\ diagnostics' = Append(diagnostics,
                                        instantiation_error(r.v, members[inst_idx]))
    /\ inst_idx' = inst_idx + 1
    /\ status' = IF inst_idx = Len(members) THEN "instantiated" ELSE status
    /\ UNCHANGED <<declarations, idx, incomplete_types, refs, visited, opVars,
                   mapping, members, unit>>

\* one iteration of `for uninst in other`
Instantiate ==
    /\ status = "instantiating"
    /\ Instantiated(instantiate(CurrentInst, mapping, members[inst_idx]))

InitInst ==
    /\ declarations = <<>> /\ idx = 1 /\ incomplete_types = <<>> /\ visited = <<>>
    /\ refs = <<>>
    /\ OpIdle
    /\ arena = ImplArena
    /\ region = <<>>
    /\ events = << Event("nested", 1, 0, 0, TRUE, "-", "PackageInstance") >>
    /\ diagnostics = <<>>
    /\ status = "instantiating"
    /\ mapping \in [{GenU, GenV} -> ActualTypes] \cup [{GenU} -> ActualTypes]
    /\ \E S \in SUBSET MemberPool :
          /\ Cardinality(S) \in 1..MaxMembers
          /\ members = InOrder(S)
    /\ inst_idx = 1
    /\ unit = <<>>

NextInst == Instantiate

\* instantiate on declarations with implicit children
InitImplicits ==
    /\ declarations = <<>> /\ idx = 1 /\ incomplete_types = <<>> /\ visited = <<>>
    /\ refs = <<>>
    /\ OpIdle
    /\ arena = ImplArena
    /\ region = <<>>
    /\ events = << Event("nested", 1, 0, 0, TRUE, "-", "PackageInstance") >>
    /\ diagnostics = <<>>
    /\ status = "instantiating"
    /\ mapping \in [{GenU, GenV} -> Actuals]
    /\ \E S \in SUBSET ImplMembers :
          /\ Cardinality(S) \in 1..MaxMembers
          /\ members = InOrder(S)
    /\ inst_idx = 1
    /\ unit = <<>>
\* ---------------------------------------------------- package_generic_map
MaxAssocs == 2

\* the generics of the package, in declaration order (GpkgRegion::nth)
Generics == <<GenU, GenV, 68>>

\* positions inside the instantiation: the package name, then the formal and
\* the actual of the k-th association
NamePos == InstancePos + 1
FormalPos(k) == InstancePos + 2 * k
ActualPos(k) == InstancePos + 2 * k + 1

\* formal: "" for a positional association, "a.b" for a formal that is not a
\* simple name; actual: a name (typ = 0: of no visible type), a literal or open
FormalNames == {"", "u_t", "g_c", "zz", "a.b"}
ActualParts == { [form |-> "Name", typ |-> IntegerId], [form |-> "Name", typ |-> 0],
                 [form |-> "Literal", typ |-> 0], [form |-> "Open", typ |-> 0] }
AssocPool == { [formal |-> f, actual |-> a] : f \in FormalNames, a \in ActualParts }
\* (integer, integer, 0): every generic of the package associated by position
AllByPosition ==
    << [formal |-> "", actual |-> [form |-> "Name", typ |-> IntegerId]],
       [formal |-> "", actual |-> [form |-> "Name", typ |-> IntegerId]],
       [formal |-> "", actual |-> [form |-> "Literal", typ |-> 0]] >>

\* generics.lookup(&formal.pos, des): 0 when the package has no such generic
generics_lookup(name) ==
    IF \E g \in 1..Len(Generics) : ImplArena[Generics[g]].des = name
        THEN Generics[CHOOSE g \in 1..Len(Generics) : ImplArena[Generics[g]].des = name]
        ELSE 0

\* A variant that binds every positional association to the first generic.
assoc_formal_first(gm, k) ==
    IF gm[k].formal # ""
        THEN IF gm[k].formal = "a.b"
                THEN [ok |-> FALSE, ent |-> 0,
                      d |-> Diag("Expected simple name for package generic formal",
                                 FormalPos(k), 0),
                      ref |-> 0]
             ELSE IF generics_lookup(gm[k].formal) = 0
                THEN [ok |-> FALSE, ent |-> 0,
                      d |-> Diag("No declaration of", FormalPos(k), 0), ref |-> 0]
             ELSE [ok |-> TRUE, ent |-> generics_lookup(gm[k].formal), d |-> <<>>,
                   ref |-> generics_lookup(gm[k].formal)]
    ELSE IF k <= Len(Generics)
        THEN [ok |-> TRUE, ent |-> Generics[1], d |-> <<>>, ref |-> 0]
    ELSE [ok |-> FALSE, ent |-> 0,
          d |-> Diag("Extra actual for generic map", ActualPos(k), 0), ref |-> 0]
\* the formal of the k-th association, or the diagnostic that skips it; ref is
\* the generic written to the reference of a formal designator that names one
\* (des.set_unique_reference), 0 when no reference is written
assoc_formal(gm, k) ==
    IF gm[k].formal # ""
        THEN IF gm[k].formal = "a.b"
                THEN [ok |-> FALSE, ent |-> 0,
                      d |-> Diag("Expected simple name for package generic formal",
                                 FormalPos(k), 0),
                      ref |-> 0]
             ELSE IF generics_lookup(gm[k].formal) = 0
                THEN [ok |-> FALSE, ent |-> 0,
                      d |-> Diag("No declaration of", FormalPos(k), 0), ref |-> 0]
             ELSE [ok |-> TRUE, ent |-> generics_lookup(gm[k].formal), d |-> <<>>,
                   ref |-> generics_lookup(gm[k].formal)]
    ELSE IF k <= Len(Generics)
        THEN [ok |-> TRUE, ent |-> Generics[k], d |-> <<>>, ref |-> 0]
    ELSE [ok |-> FALSE, ent |-> 0,
          d |-> Diag("Extra actual for generic map", ActualPos(k), 0), ref |-> 0]

\* mapping.insert(uninst_typ.id(), typ)
mapping_insert(m, g, typ) ==
    [x \in DOMAIN m \cup {g} |-> IF x = g THEN typ ELSE m[x]]

\* expr_pos_with_ttyp(scope, obj.type_mark(), &assoc.actual.pos, expr): what it
\* reports for the actual of a constant generic; a literal is accepted, a name
\* that is not visible or that denotes a type is not an expression of the type
constant_actual(a, k) ==
    IF a.form = "Literal" THEN <<>>
    ELSE IF a.typ = 0 THEN << Diag("No declaration of", ActualPos(k), 0) >>
    ELSE << Diag("cannot be used in an expression", ActualPos(k), 0) >>

\* the reference slots rs after the formal of the k-th association was resolved
formal_referenced(rs, gm, k) ==
    IF assoc_formal(gm, k).ref = 0 THEN rs
    ELSE [rs EXCEPT ![k] = [value |-> assoc_formal(gm, k).ref, writes |-> @.writes + 1]]

\* The map built from associations k.. of gm, given the map m, the
\* diagnostics ds and the reference slots rs left by the associations before
\* k; ok = FALSE: type_name failed.
RECURSIVE package_generic_map(_, _, _, _, _)
package_generic_map(gm, k, m, ds, rs) ==
    IF k > Len(gm) THEN [ok |-> TRUE, mapping |-> m, diags |-> ds, refs |-> rs]
    ELSE IF ~assoc_formal(gm, k).ok
        THEN package_generic_map(gm, k + 1, m, Append(ds, assoc_formal(gm, k).d), rs)
    ELSE IF gm[k].actual.form = "Open"
        THEN package_generic_map(gm, k + 1, m, ds, formal_referenced(rs, gm, k))
    ELSE IF ~IsType(ImplArena, assoc_formal(gm, k).ent)
        \* GpkgInterfaceEnt::Constant: the actual is typed against the type mark
        THEN package_generic_map(gm, k + 1, m, ds \o constant_actual(gm[k].actual, k),
                                 formal_referenced(rs, gm, k))
    ELSE IF gm[k].actual.form # "Name"
        THEN package_generic_map(gm, k + 1, m,
                 Append(ds, Diag("Cannot map expression to type generic",
                                 ActualPos(k), 0)),
                 formal_referenced(rs, gm, k))
    ELSE IF gm[k].actual.typ = 0
        THEN [ok |-> FALSE, mapping |-> m,
              diags |-> Append(ds, Diag("No declaration of", ActualPos(k), 0)),
              refs |-> formal_referenced(rs, gm, k)]
    ELSE package_generic_map(gm, k + 1,
             mapping_insert(m, assoc_formal(gm, k).ent, gm[k].actual.typ), ds,
             formal_referenced(rs, gm, k))

\* the error of analyze_package_instance_name, pushed as it is
NameError == Diag("No declaration of", NamePos, 0)

\* generic_package_instance up to the loop over the members: the nested
\* scope is created before the generic map is analysed
name_and_generic_map(r) ==
    /\ events' = Append(events, Event("nested", 1, 0, 0, TRUE, "-", "PackageInstance"))
    /\ diagnostics' = diagnostics \o r.diags
    /\ refs' = r.refs
    \* Err(..)?: no map is returned
    /\ mapping' = IF r.ok THEN r.mapping ELSE <<>>
    /\ status' = IF r.ok THEN "instantiating" ELSE "unknown"

GenericPackageInstance ==
    /\ status = "resolving"
    /\ IF unit.name = "ok"
          THEN name_and_generic_map(
                  package_generic_map(unit.generic_map, 1, <<>>, <<>>, refs))
          ELSE /\ diagnostics' = IF unit.name = "err"
                                     THEN Append(diagnostics, NameError)
                                     ELSE diagnostics
               /\ status' = IF unit.name = "err" THEN "unknown" ELSE "fatal"
               /\ UNCHANGED <<mapping, events, refs>>
    /\ UNCHANGED <<declarations, idx, arena, region, incomplete_types, visited,
                   opVars, members, inst_idx, unit>>

\* the members the instantiations below draw from: a protected type (whose
\* region map_region instantiates), a nested package (which instantiate
\* rejects) and a function
InstanceMembers == {46, 49, 53}

InitInstance ==
    /\ declarations = <<>> /\ idx = 1 /\ incomplete_types = <<>> /\ visited = <<>>
    /\ OpIdle
    /\ arena = ImplArena
    /\ region = <<>>
    /\ events = <<>>
    /\ diagnostics = <<>>
    /\ status = "resolving"
    /\ mapping = <<>>
    /\ \E S \in SUBSET InstanceMembers : S # {} /\ members = InOrder(S)
    /\ inst_idx = 1
    \* the associations drawn may follow those of every generic by position
    /\ \E n \in 0..MaxAssocs : \E gm \in [1..n -> AssocPool] :
          \E name \in {"ok", "err", "fatal"}, lead \in {<<>>, AllByPosition} :
             unit = [name |-> name, generic_map |-> lead \o gm]
    \* the reference slot of the formal of each association
    /\ refs = [k \in 1..Len(unit.generic_map) |-> [value |-> 0, writes |-> 0]]

\* members that refer to a type the package declares: the function f of the
\* generic type, the array type arr_t and the function g of arr_t
SharingMembers == {37, 38, 46, 53}

InitSharing ==
    /\ declarations = <<>> /\ idx = 1 /\ incomplete_types = <<>> /\ visited = <<>>
    /\ OpIdle
    /\ arena = ImplArena
    /\ region = <<>>
    /\ events = <<>>
    /\ diagnostics = <<>>
    /\ status = "resolving"
    /\ mapping = <<>>
    /\ \E S \in SUBSET SharingMembers : S # {} /\ members = InOrder(S)
    /\ inst_idx = 1
    /\ \E n \in 0..MaxAssocs : \E gm \in [1..n -> AssocPool] :
          \E name \in {"ok", "err", "fatal"} :
             unit = [name |-> name, generic_map |-> gm]
    \* the reference slot of the formal of each association
    /\ refs = [k \in 1..Len(unit.generic_map) |-> [value |-> 0, writes |-> 0]]
NextInstance == GenericPackageInstance \/ Instantiate

\* =========================================================== specifications
vars == <<declVars, opVars, instVars>>

SpecDecl  == InitDecl /\ [][NextDecl]_vars
SpecMatch == InitMatch /\ [][NextMatch]_vars
SpecOp    == InitOp /\ [][NextOp]_vars
SpecOperands == InitOp /\ [][NextOperands]_vars
SpecNested == InitNested /\ [][NextDecl]_vars
SpecBodies == InitBodies /\ [][NextDecl]_vars
SpecAlias == InitAlias /\ [][NextAlias]_vars
SpecInst  == InitInst /\ [][NextInst]_vars
SpecImplicits == InitImplicits /\ [][NextInst]_vars
SpecLiteral == InitLiteral /\ [][NextLiteral]_vars
SpecAggregate == InitAggregate /\ [][NextAggregate]_vars
SpecReturn == InitReturn /\ [][NextReturn]_vars
SpecSteps == InitSteps /\ [][NextOp]_vars
SpecInstance == InitInstance /\ [][NextInstance]_vars
SpecSharing == InitSharing /\ [][NextInstance]_vars
SpecRegions == (InitDecl \/ InitNested \/ InitInst) /\ [][NextDecl \/ NextInst]_vars
SpecRefs  == (InitDecl \/ InitOp) /\ [][NextDecl \/ NextOp]_vars

\* =================================================================== claims
IsFullTypeDecl(d, n) == d.d = "Type" /\ d.name = n /\ d.def # "Incomplete"

\* The later declarations that are non-incomplete type declarations of n.
LaterFull(i, n) ==
    { j \in (i + 1)..Len(declarations) : IsFullTypeDecl(declarations[j], n) }

\* A full type declaration reaches the definition of its type: an enumeration,
\* record, physical, file or protected type always; an access, subtype, array
\* or numeric type when its subtype indication or range resolves.
ReachesDefinition(d) ==
    \/ d.def \in {"Enumeration", "Record", "Physical", "File", "Protected"}
    \/ d.def \in {"Access", "Array", "Subtype", "Numeric"} /\ d.res = "ok"

TypeOfDef(def) ==
    CASE def = "Enumeration" -> "Enum"
      [] def = "Numeric"     -> "Integer"
      [] OTHER               -> def

\* C1 as stated: after the declarative part was analysed, an incomplete type t
\* followed by a full type declaration of t (of any of the nine kinds) leaves
\* exactly one entity for t in the scope, with the incomplete entity's id and
\* the full type as its kind.
C1_AsStated ==
    status = "ok" =>
        \A n \in Names :
            LET e == incomplete_types[n].ent
                p == incomplete_types[n].pos
            IN  (e # 0 /\ \E j \in LaterFull(p, n) : declarations[j].def \in FullDefs)
                => /\ lookup_immediate(arena, region, n) = {e}
                   /\ arena[e].kind.t # "Incomplete"

\* C1 (amended): when the analysis returned Ok and the scope accepted the
\* incomplete entity, exactly one entity exists for t, its id is the incomplete
\* entity's id, and its kind is the full type of the last following full
\* declaration that reached the definition of its type; it is still
\* Type::Incomplete exactly when no following full declaration did.
C1_IncompleteUpgrade ==
    status = "ok" =>
        \A n \in Names :
            LET e == incomplete_types[n].ent
                p == incomplete_types[n].pos
                defining == { j \in LaterFull(p, n) : ReachesDefinition(declarations[j]) }
            IN  (e # 0 /\ \E k \in 1..Len(region) : region[k] = e)
                => /\ lookup_immediate(arena, region, n) = {e}
                   /\ arena[e].kind.k = "Type"
                   /\ IF defining = {} THEN arena[e].kind.t = "Incomplete"
                      ELSE LET final == CHOOSE j \in defining : \A k \in defining : k <= j
                           IN  arena[e].kind.t = TypeOfDef(declarations[final].def)

C1_Witness ==
    /\ status = "ok"
    /\ incomplete_types["t"].ent # 0
    /\ lookup_immediate(arena, region, "t") = {incomplete_types["t"].ent}
    /\ arena[incomplete_types["t"].ent].kind.t = "Record"

\* C2: for the first incomplete declaration of a symbol, at index i, the
\* "Missing full type declaration" diagnostic (anchored at i) is emitted iff no
\* later declaration is a non-incomplete type declaration of that name, and the
\* Incomplete entity carries the position of the first such later declaration,
\* or its own position when there is none.
C2_MissingFullType ==
    \A n \in Names :
        LET e == incomplete_types[n].ent
            i == incomplete_types[n].pos
            later == LaterFull(i, n)
            missing == \E k \in 1..Len(diagnostics) :
                          diagnostics[k] =
                             Diag("Missing full type declaration of incomplete type", i, i)
        IN  e # 0 =>
               /\ missing <=> later = {}
               /\ arena[e].kind = IncompleteKind =>
                     arena[e].pos = IF later = {} THEN i
                                    ELSE CHOOSE j \in later : \A k \in later : j <= k

C2_Witness ==
    \E n \in Names :
        /\ incomplete_types[n].ent # 0
        /\ arena[incomplete_types[n].ent].kind = IncompleteKind
        /\ arena[incomplete_types[n].ent].pos > incomplete_types[n].pos
        /\ \E j \in 1..(incomplete_types[n].pos - 1) : IsFullTypeDecl(declarations[j], n)

\* C10: the declarations are visited in list order without gaps; a non-fatal
\* failure never ends the walk; the walk ends early only at the first
\* declaration whose analysis is fatal, and nothing after it is analysed.
FatalDecl(d) == d.res = "fatal"

C10_WalkOrder ==
    /\ visited = [k \in 1..Len(visited) |-> k]
    /\ idx = Len(visited) + 1
    /\ \A k \in 1..(Len(visited) - 1) : ~FatalDecl(declarations[k])
    /\ status = "ok" => /\ Len(visited) = Len(declarations)
                        /\ \A k \in 1..Len(declarations) : ~FatalDecl(declarations[k])
    /\ status = "fatal" => FatalDecl(declarations[Len(visited)])
    /\ status = "running" => /\ Len(visited) < Len(declarations)
                             /\ \A k \in 1..Len(visited) : ~FatalDecl(declarations[k])

C10_Witness ==
    /\ status = "fatal"
    /\ Len(visited) < Len(declarations)
    /\ \E k \in 1..(Len(visited) - 1) : declarations[k].res = "err"
\* C6: with implicit conversion enabled a universal-integer expression is
\* possible for every integer target and a universal-real one for every real
\* target, an expression of any integer (real) type is possible for the
\* universal-integer (universal-real) target, and a universal-integer
\* expression is not possible for a non-numeric target; with implicit
\* conversion disabled is_possible is exactly match_type.
NumericKinds == {"Integer", "Real", "UniversalInteger", "UniversalReal"}

C6_ImplicitUniversalCast ==
    (status = "matching" /\ calls = 1) =>
        LET e == last.types
            t == last.ttyp
        IN  /\ (last.implicit /\ e = Unambiguous(UniversalIntegerId) /\ kind(t).t = "Integer")
                  => result
            /\ (last.implicit /\ e = Unambiguous(UniversalRealId) /\ kind(t).t = "Real")
                  => result
            /\ (last.implicit /\ e.tag = "Unambiguous" /\ t = UniversalIntegerId
                              /\ kind(base(e.typ)).t \in {"Integer", "UniversalInteger"})
                  => result
            /\ (last.implicit /\ e.tag = "Unambiguous" /\ t = UniversalRealId
                              /\ kind(base(e.typ)).t \in {"Real", "UniversalReal"})
                  => result
            /\ (last.implicit /\ e = Unambiguous(UniversalIntegerId)
                              /\ kind(t).t \notin NumericKinds)
                  => ~result
            /\ ~last.implicit => (result <=> match_type(e, t))

C6_Witness ==
    /\ status = "matching" /\ calls = 1
    /\ last.implicit /\ last.types = Unambiguous(UniversalIntegerId) /\ last.ttyp = IntegerId
    /\ result = TRUE

\* C4: when the disambiguation pipeline ran for the root operator of a fresh
\* expression, the outcome follows the number of survivors: none gives the one
\* diagnostic "Found no match" and an unknown result; one is recorded in the
\* operator's reference slot and every operand is typed against the formal's
\* type; several give, in forward typing, Ambiguous of the survivors' return
\* base types without diagnostic or reference, and in backward typing exactly
\* one "ambiguous use of operator" diagnostic relating all survivors, without
\* reference.
C4_OutcomeBySurvivors ==
    (status = "typing" /\ calls = 1 /\ last.call # "boolean_expr" /\ disamb.ran) =>
        LET n == Len(disamb.cands)
            forward == last.call = "expr_type"
        IN  /\ n = 0 => /\ diagnostics = <<no_match(expr.pos)>>
                        /\ forward => ~result.ok
                        /\ refs[expr.pos].value = 0
            /\ n = 1 => /\ refs[expr.pos] = [value |-> disamb.cands[1], writes |-> 1]
                        /\ \A i \in 1..Len(expr.args) :
                              \E k \in 1..Len(typed) :
                                 typed[k] = [pos  |-> expr.args[i].pos,
                                             ttyp |-> type_mark(arena, formals(disamb.cands[1])[i])]
                        /\ forward => result = [ok |-> TRUE,
                                                t |-> Unambiguous(return_type(disamb.cands[1]))]
            /\ n > 1 => /\ refs[expr.pos].value = 0
                        /\ forward => /\ diagnostics = <<>>
                                      /\ result = [ok |-> TRUE,
                                                   t |-> Ambiguous(ReturnTypes(disamb.cands))]
                        /\ ~forward => diagnostics = <<ambiguous_op(expr.pos, disamb.cands)>>

C4_Witness ==
    /\ status = "typing" /\ calls = 1 /\ last.call = "expr_with_ttyp" /\ disamb.ran
    /\ Len(disamb.cands) > 1
    /\ Len(diagnostics) = 1 /\ diagnostics[1].related = disamb.cands

\* C5: for fixed candidates, operands and target type, disambiguate_op gives
\* the same outcome (no match, the same entity, or the same set of ambiguous
\* candidates) for every order of the candidate list.
Orderings(seq) ==
    { [i \in 1..Len(seq) |-> seq[f[i]]] :
        f \in { g \in [1..Len(seq) -> 1..Len(seq)] :
                   \A i, j \in 1..Len(seq) : g[i] = g[j] => i = j } }

Fresh(scope) ==
    [refs |-> [p \in 1..NumOps(expr) |-> [value |-> 0, writes |-> 0]],
     diags |-> <<>>, typed |-> <<>>, scope |-> scope]

SameOutcome(a, b) ==
    /\ a.st = b.st
    /\ a.ent = b.ent
    /\ { a.cands[i] : i \in 1..Len(a.cands) } = { b.cands[i] : i \in 1..Len(b.cands) }

C5_OrderIndependent ==
    (status = "typing" /\ calls = 1 /\ last.call # "boolean_expr") =>
        \A scope \in Orderings(region) :
            SameOutcome(RootDisamb(Fresh(scope), last.ttyp), disamb)

C5_Witness ==
    /\ status = "typing" /\ calls = 1 /\ last.call = "expr_with_ttyp"
    /\ Len(lookup_operator(region, Len(expr.args))) = 3
    /\ disamb.st = "Unambiguous" /\ disamb.ran

\* C8: no reference slot is written twice, neither by repeated forward and
\* backward typings of one expression tree nor by one run over a declarative
\* part; a slot that holds an entity keeps it.
C8_WrittenOnce ==
    \A i \in DOMAIN refs :
        /\ refs[i].writes <= 1
        /\ refs[i].writes = 0 <=> refs[i].value = 0

C8_Witness ==
    /\ status = "typing" /\ calls = 2
    /\ refs[1].writes = 1
    /\ disamb.st = "Unambiguous" /\ ~disamb.ran
    /\ NumOps(expr) = 2 /\ refs[2].writes = 1

\* The handler that created region r, and whether r was closed before event k.
Owner(r) == events[CHOOSE k \in 1..Len(events) :
                       events[k].ev = "nested" /\ events[k].region = r].owner
ClosedBefore(r, k) ==
    \E j \in 1..(k - 1) : events[j].ev = "close" /\ events[j].region = r
Closed(r) == ClosedBefore(r, Len(events) + 1)

\* C9 as stated: no entity is added to a nested region after the close of that
\* region, statement labels and loop parameters included.
C9_AsStated ==
    \A k \in 1..Len(events) :
        (events[k].ev = "add" /\ events[k].region # 0)
            => ~ClosedBefore(events[k].region, k)

\* C9 (amended): the regions of a subprogram declaration, a component, a
\* record and a member subprogram of a protected type take every entity before
\* their close. The region of a subprogram body is closed after its declarative
\* part and before its statements: formals and declared objects are added
\* before the close, statement labels after it. The region of a for loop and
\* the member region of a protected type are never closed.
C9_ClosedAfterDeclarations ==
    \A k \in 1..Len(events) :
        (events[k].ev = "add" /\ events[k].region # 0) =>
            LET r == events[k].region IN
            CASE Owner(r) \in {"SubprogramDeclaration", "Component", "Record",
                               "ProtectedSubprogram"}
                     -> ~ClosedBefore(r, k)
              [] Owner(r) = "SubprogramBody"
                     -> ClosedBefore(r, k) <=> arena[events[k].ent].kind = LabelKind
              [] Owner(r) \in {"Loop", "Protected"}
                     -> ~Closed(r)

C9_Witness ==
    /\ status = "ok"
    /\ \E j, k \in 1..Len(events) :
          /\ events[j].ev = "add" /\ events[k].ev = "add"
          /\ events[j].region = events[k].region /\ events[k].region # 0
          /\ Owner(events[k].region) = "SubprogramBody"
          /\ arena[events[j].ent].kind.k = "Object" /\ ~ClosedBefore(events[j].region, j)
          /\ arena[events[k].ent].kind = LabelKind /\ ClosedBefore(events[k].region, k)
    /\ \E k \in 1..Len(events) :
          /\ events[k].ev = "add" /\ events[k].region # 0
          /\ Owner(events[k].region) = "Component" /\ Closed(events[k].region)

\* The image of a type under the generic map.
Mapped(t) == IF t \in DOMAIN mapping THEN mapping[t] ELSE t

\* The type references a kind holds directly, in a fixed order, and how many of
\* the leading ones are held as base types (array indexes).
TypeRefs(kd) ==
    CASE kd.k \in {"Object", "ElementDeclaration"}        -> <<kd.subtype>>
      [] kd.k = "File"                                    -> <<kd.subtype>>
      [] kd.k = "InterfaceFile"                           -> <<kd.typ>>
      [] kd.k = "ObjectAlias"                             -> <<kd.type_mark>>
      [] kd.k = "Overloaded"                              -> <<kd.ret>>
      [] kd.k = "Type" /\ kd.t = "Array"                  -> kd.indexes \o <<kd.elem_type>>
      [] kd.k = "Type" /\ kd.t \in {"Access", "Subtype"}  -> <<kd.subtype>>
      [] kd.k = "Type" /\ kd.t = "Alias"                  -> <<kd.typ>>
      [] OTHER                                            -> <<>>
BaseRefs(kd) ==
    CASE kd.k = "Type" /\ kd.t = "Array" -> Len(kd.indexes)
      [] OTHER                           -> 0

\* The entities a kind holds (formals, aliased subprogram, record elements,
\* base object), in order.
Parts(kd) ==
    CASE kd.k = "Overloaded" /\ kd.o # "Alias" -> kd.formals
      [] kd.k = "Overloaded" /\ kd.o = "Alias" -> kd.formals \o <<kd.aliased>>
      [] kd.k = "Type" /\ kd.t = "Record" -> kd.elems
      [] kd.k = "ObjectAlias"             -> <<kd.base_object>>
      [] OTHER                            -> <<>>

Instances == { e \in 1..Len(arena) : arena[e].rel = "InstanceOf" }

\* C7 as stated: with the generic type bound, every instantiated declaration
\* holds the actual type wherever the uninstantiated one held the generic type
\* (array indexes included), and the same type entity everywhere else.
C7_AsStated ==
    (status \in {"instantiating", "instantiated"} /\ GenU \in DOMAIN mapping) =>
        \A e \in Instances :
            TypeRefs(arena[e].kind) =
                [n \in 1..Len(TypeRefs(arena[arena[e].of].kind)) |->
                    Mapped(TypeRefs(arena[arena[e].of].kind)[n])]

\* C7 (amended): every instantiated declaration holds the actual type wherever
\* the uninstantiated one held the generic type and the same type entity
\* everywhere else, except at array indexes, which hold the base type of that
\* type; its formals, record elements, base object or aliased subprogram are
\* the instances of those of the uninstantiated declaration, in order.
C7_ActualForGeneric ==
    (status \in {"instantiating", "instantiated"} /\ GenU \in DOMAIN mapping) =>
        \A e \in Instances :
            LET u == arena[arena[e].of].kind
                i == arena[e].kind
            IN  /\ TypeRefs(i) =
                       [n \in 1..Len(TypeRefs(u)) |->
                           IF n <= BaseRefs(u) THEN base_type(arena, Mapped(TypeRefs(u)[n]))
                           ELSE Mapped(TypeRefs(u)[n])]
                /\ Len(Parts(i)) = Len(Parts(u))
                /\ \A n \in 1..Len(Parts(u)) :
                       /\ Parts(i)[n] \in Instances
                       /\ arena[Parts(i)[n]].of = Parts(u)[n]

C7_Witness ==
    /\ status = "instantiated"
    /\ mapping[GenU] = NaturalId
    /\ \E e \in Instances :
          /\ arena[e].of = 38
          /\ arena[e].kind.indexes = <<IntegerId>>
          /\ arena[e].kind.elem_type = Mapped(GenV)
    /\ \E e \in Instances :
          /\ arena[e].of = 69
          /\ arena[e].kind.subtype = NaturalId
    /\ \E e \in Instances :
          /\ arena[e].of = 46
          /\ \E f \in Instances :
                /\ arena[f].of = 37
                /\ arena[e].kind.region[2] = f
                /\ arena[f].kind.ret = NaturalId
                /\ arena[arena[f].kind.formals[1]].kind.subtype = NaturalId

\* Two entities of a region collide: the same designator, and not both
\* overloadable with different signature keys.
Collide(a, b) ==
    /\ a # b
    /\ arena[a].des = arena[b].des
    /\ ~(IsOverloaded(arena, a) /\ IsOverloaded(arena, b)
         /\ SignatureKey(arena, a) # SignatureKey(arena, b))

Unique(reg) == \A j, k \in 1..Len(reg) : j < k => ~Collide(reg[j], reg[k])

\* The regions: the one of the scope, those created, those entities hold.
Regions ==
    {region}
    \cup { into_region(events, r) : r \in 0..NumRegions(events) }
    \cup { arena[e].kind.region :
             e \in { e \in 1..Len(arena) :
                       \/ arena[e].kind.k \in {"Component", "Design"}
                       \/ arena[e].kind.k = "Type" /\ arena[e].kind.t = "Protected" } }

\* C3: no region holds two colliding entities; an add is rejected exactly when
\* the entity collides with one the region holds, and a rejected add leaves a
\* duplicate-declaration diagnostic at the entity unless the sink discards.
C3_NoDuplicates ==
    /\ \A reg \in Regions : Unique(reg)
    /\ \A k \in 1..Len(events) :
          events[k].ev = "add" =>
              LET before == into_region(SubSeq(events, 1, k - 1), events[k].region) IN
              /\ events[k].ok <=>
                    \A j \in 1..Len(before) : ~Collide(before[j], events[k].ent)
              /\ (~events[k].ok /\ events[k].sink = "diagnostics") =>
                    \E d \in 1..Len(diagnostics) :
                        /\ diagnostics[d].msg = "Duplicate declaration"
                        /\ diagnostics[d].pos = events[k].pos
    /\ status \in {"instantiating", "instantiated"} =>
          \A d \in 1..Len(diagnostics) : diagnostics[d].msg # "Duplicate declaration"

C3_Witness ==
    /\ status = "instantiated"
    /\ \E j, k \in 1..Len(events) :
          /\ events[j].ev = "add" /\ events[j].region = 1 /\ ~events[j].ok
          /\ events[k].ev = "add" /\ events[k].region > 1 /\ ~events[k].ok
          /\ arena[events[k].ent].of = 45
          /\ events[k + 1].ev = "add" /\ events[k + 1].region = events[k].region
          /\ events[k + 1].ok /\ arena[events[k + 1].ent].of = 37
    /\ Len(region) > 1
\* ---- C11
\* the members visited so far that instantiate rejected, in order
Failed == SelectSeq([k \in 1..(inst_idx - 1) |-> members[k]],
                    LAMBDA m : ~instantiate(CurrentInst, mapping, m).ok)
AtInstance == SelectSeq(diagnostics, LAMBDA d : d.pos = InstancePos)
Elsewhere == SelectSeq(diagnostics, LAMBDA d : d.pos # InstancePos)

\* C11 as stated: every diagnostic of generic_package_instance, whichever step
\* failed, is at the identifier of the instance and is related to the
\* declaration of a member of the uninstantiated package.
C11_AsStated ==
    unit # <<>> =>
        \A d \in 1..Len(diagnostics) :
            /\ diagnostics[d].pos = InstancePos
            /\ \E k \in 1..Len(members) :
                  diagnostics[d].related = arena[members[k]].pos

\* C11 amended: only a member that instantiate rejects is reported at the
\* identifier of the instance, one diagnostic per such member, related to the
\* member's declaration; the later members are still instantiated.  A name
\* that does not resolve is reported by the error of the name analysis alone,
\* and the diagnostics of the generic map are at the formal or the actual of
\* their association and have no related location.
C11_MemberFailureAtInstance ==
    unit # <<>> =>
        /\ Len(AtInstance) = Len(Failed)
        /\ \A j \in 1..Len(AtInstance) :
              AtInstance[j].related = arena[Failed[j]].pos
        /\ \A j \in 1..Len(Elsewhere) :
              /\ Elsewhere[j].related = 0
              /\ IF unit.name = "ok"
                    THEN \E k \in 1..Len(unit.generic_map) :
                            Elsewhere[j].pos \in {FormalPos(k), ActualPos(k)}
                    ELSE Elsewhere[j] = NameError
        /\ unit.name # "ok" /\ status # "resolving" =>
              /\ diagnostics = IF unit.name = "err" THEN <<NameError>> ELSE <<>>
              /\ status = IF unit.name = "err" THEN "unknown" ELSE "fatal"
              /\ region = <<>>
        /\ status = "instantiated" =>
              Len(region) + Len(Failed) = Len(members)

\* a nested package was rejected after an association of the generic map
\* was, and the function after it was still instantiated
C11_Witness ==
    /\ unit # <<>>
    /\ status = "instantiated"
    /\ members = <<49, 53>>
    /\ Len(Elsewhere) = 1
    /\ Len(AtInstance) = 1
    /\ AtInstance[1].pos = InstancePos
    /\ AtInstance[1].related = arena[49].pos
    /\ Len(region) = 1

\* ---- C12
\* the diagnostics that reject the return statement itself
Rejections == SelectSeq(diagnostics, LAMBDA d : d.pos = ReturnPos)
TypedAgainst(typ) ==
    /\ expr # <<>>
    /\ typed # <<>>
    /\ typed[1] = [pos |-> expr.pos, ttyp |-> typ]
NotTyped == typed = <<>> /\ refs[1].writes = 0

\* C12 as stated: under Function(T) the expression of a return statement is
\* typed against T; under every other root the statement is rejected with a
\* diagnostic.
C12_AsStated ==
    (sroot # <<>> /\ calls = 1) =>
        IF sroot.root = "Function" THEN TypedAgainst(sroot.typ)
        ELSE Rejections # <<>>

\* C12 amended: under Function(T) a return with an expression types it against
\* T and a return without one is rejected; under Procedure only a return with
\* an expression is rejected; under Process every return is rejected; under
\* Unknown no return is rejected and the expression is typed without a target.
\* A rejected return statement is not typed.
C12_ReturnByRoot ==
    (sroot # <<>> /\ calls = 1) =>
        CASE sroot.root = "Function" ->
                IF expr # <<>>
                    THEN TypedAgainst(sroot.typ) /\ Rejections = <<>>
                    ELSE /\ diagnostics = << Diag("Functions cannot return without a value",
                                                  ReturnPos, <<>>) >>
                         /\ NotTyped
          [] sroot.root = "Procedure" ->
                /\ diagnostics = IF expr # <<>>
                                    THEN << Diag("Procedures cannot return a value",
                                                 ReturnPos, <<>>) >>
                                    ELSE <<>>
                /\ NotTyped
          [] sroot.root = "Process" ->
                /\ diagnostics = << Diag("Cannot return from a process", ReturnPos, <<>>) >>
                /\ NotTyped
          [] sroot.root = "Unknown" ->
                /\ Rejections = <<>>
                /\ \A k \in 1..Len(typed) : typed[k].pos # 1
                /\ expr = <<>> => diagnostics = <<>> /\ NotTyped

\* a function returning integer returned an application of "+" that resolved
\* to the integer overload
C12_Witness ==
    /\ sroot = SequentialRoot("Function", IntegerId)
    /\ calls = 1
    /\ TypedAgainst(IntegerId)
    /\ refs[1].value = 19
    /\ diagnostics = <<>>

\* ---- C13
\* analyze_type_declaration returned Ok for the declaration at idx
TypeDeclared ==
    /\ status = "running"
    /\ visited' = Append(visited, idx)
    /\ declarations[idx].d = "Type"
    /\ declarations[idx].def # "Incomplete"
    /\ status' # "fatal"
\* the call defined a type (the body of a protected type defines none)
TypeDefined ==
    /\ declarations[idx].def # "ProtectedBody"
    /\ refs'[idx].writes > refs[idx].writes
\* the adds to the enclosing scope made by the call
ScopeAdds ==
    { k \in (Len(events) + 1)..Len(events') :
        events'[k].ev = "add" /\ events'[k].region = 0 }
ImplicitsOf(ar, typ) == { ar[typ].implicits[n] : n \in 1..Len(ar[typ].implicits) }
InScope(reg) == { reg[n] : n \in 1..Len(reg) }

\* C13 as stated: after analyze_type_declaration returned Ok, the new type and
\* every implicit child of it are in the enclosing scope, and everything the
\* call put into the scope besides the type is an implicit child of it; a
\* call that defined no type left the scope as it was.
C13_AsStated ==
    [][ TypeDeclared =>
          IF TypeDefined
             THEN /\ refs'[idx].value \in InScope(region')
                  /\ ImplicitsOf(arena', refs'[idx].value) \subseteq InScope(region')
                  /\ (InScope(region') \ InScope(region)) \ {refs'[idx].value}
                         \subseteq ImplicitsOf(arena', refs'[idx].value)
             ELSE region' = region /\ ScopeAdds = {} ]_vars

\* C13 amended: the type and every implicit child of it were offered to the
\* enclosing scope by scope.add, and nothing else was; each of them is in the
\* scope afterwards unless the scope rejected it as a duplicate, and then a
\* duplicate-declaration diagnostic at its position was emitted.  A call that
\* defined no type offered nothing to the scope, and allocated nothing
\* unless it is the body of a protected type.
C13_ImplicitsOffered ==
    [][ TypeDeclared =>
          IF TypeDefined
             THEN /\ ImplicitsOf(arena', refs'[idx].value) \cup {refs'[idx].value}
                         = { events'[k].ent : k \in ScopeAdds }
                  /\ \A k \in ScopeAdds :
                        IF events'[k].ok
                           THEN events'[k].ent \in InScope(region')
                           ELSE /\ events'[k].ent \notin InScope(region')
                                /\ \E d \in (Len(diagnostics) + 1)..Len(diagnostics') :
                                      /\ diagnostics'[d].msg = "Duplicate declaration"
                                      /\ diagnostics'[d].pos = events'[k].pos
                  /\ (InScope(region') \ InScope(region)) \ {refs'[idx].value}
                         \subseteq ImplicitsOf(arena', refs'[idx].value)
             ELSE /\ region' = region /\ ScopeAdds = {}
                  /\ declarations[idx].def # "ProtectedBody" =>
                        Len(arena') = Len(arena) ]_vars

\* an enumeration type named like an earlier object was declared: the type
\* was rejected by the scope, its literal and its implicit "=" were taken in
C13_Witness ==
    /\ visited # <<>>
    /\ status # "fatal"
    /\ LET i == visited[Len(visited)] IN
          /\ declarations[i].d = "Type" /\ declarations[i].def = "Enumeration"
          /\ refs[i].writes = 1
          /\ refs[i].value \notin InScope(region)
          /\ Len(arena[refs[i].value].implicits) = 2
          /\ ImplicitsOf(arena, refs[i].value) \subseteq InScope(region)

\* ---- C14
\* C14: whatever the scope holds, expr_type gives an integer literal the type
\* universal_integer, a real literal universal_real, a string or bit-string
\* literal String, null Null and an aggregate Aggregate, and emits no
\* diagnostic; String matches exactly the one-dimensional arrays of an
\* enumeration type, Null exactly the access types, Aggregate exactly the
\* array and record types, and a universal type only itself.
C14_LiteralTypes ==
    (expr # <<>> /\ expr.e = "Leaf" /\ calls >= 1) =>
        /\ diagnostics = <<>> /\ typed = <<>> /\ refs[1].writes = 0
        /\ result.t = CASE expr.lit = "Integer" -> Unambiguous(UniversalIntegerId)
                         [] expr.lit = "Real" -> Unambiguous(UniversalRealId)
                         [] expr.lit \in {"String", "BitString"} -> StringType
                         [] expr.lit = "Null" -> NullType
                         [] expr.lit = "Aggregate" -> AggregateType
        /\ calls = 1 => result.ok
        /\ calls = 2 =>
              result.ok =
                 CASE expr.lit = "Integer" -> last.ttyp = UniversalIntegerId
                   [] expr.lit = "Real" -> last.ttyp = UniversalRealId
                   [] expr.lit \in {"String", "BitString"} ->
                         last.ttyp \in {BitVectorId, StringId}
                   [] expr.lit = "Null" -> last.ttyp = PtrId
                   [] expr.lit = "Aggregate" ->
                         last.ttyp \in {BitVectorId, StringId, RecId}

\* a bit-string literal was typed in a scope with three overloads of "+" and
\* its type matched bit_vector
C14_Witness ==
    /\ expr = Leaf(1, "BitString", 0)
    /\ Len(region) = 3
    /\ calls = 2
    /\ last = [call |-> "match_type", ttyp |-> BitVectorId]
    /\ result = [ok |-> TRUE, t |-> StringType]

\* ---- C15
IsIncomplete(j, n) ==
    /\ declarations[j].d = "Type" /\ declarations[j].def = "Incomplete"
    /\ declarations[j].name = n
\* the first incomplete declaration of n in the declarative part
FirstIncomplete(n) ==
    CHOOSE j \in 1..Len(declarations) :
        IsIncomplete(j, n) /\ \A k \in 1..(j - 1) : ~IsIncomplete(k, n)
\* the declaration at idx repeats an incomplete declaration and is analysed
Repeated ==
    /\ status = "running"
    /\ visited' = Append(visited, idx)
    /\ IsIncomplete(idx, declarations[idx].name)
    /\ \E j \in 1..(idx - 1) : IsIncomplete(j, declarations[idx].name)

\* C15: an incomplete type declaration of a symbol already declared incomplete
\* in the declarative part emits one duplicate-declaration diagnostic related
\* to the first incomplete declaration, allocates no entity, adds nothing to
\* the scope, sets no reference and leaves the incomplete-type map as it was.
C15_RepeatedIncomplete ==
    [][ Repeated =>
          /\ diagnostics' =
                Append(diagnostics,
                       Diag("Duplicate declaration", idx,
                            FirstIncomplete(declarations[idx].name)))
          /\ arena' = arena
          /\ region' = region
          /\ events' = events
          /\ refs' = refs
          /\ incomplete_types' = incomplete_types
          /\ incomplete_types[declarations[idx].name].pos
                = FirstIncomplete(declarations[idx].name)
          /\ status' # "fatal" ]_vars

\* type t was declared incomplete three times: the third declaration was
\* reported against the first
C15_Witness ==
    /\ Len(declarations) = 3
    /\ \A j \in 1..3 : IsIncomplete(j, "t")
    /\ visited = <<1, 2, 3>>
    /\ \E d \in 1..Len(diagnostics) :
          diagnostics[d] = Diag("Duplicate declaration", 3, 1)
    /\ Len(region) = 1
    /\ incomplete_types["t"].pos = 1

\* ---- C16
\* disambiguate_op ran its steps on the root operator in the first call
RootRan == expr # <<>> /\ calls = 1 /\ disamb # <<>> /\ disamb.ran
Overloaded == lookup_operator(region, Len(expr.args))
Untyped == [refs |-> [p \in DOMAIN refs |-> [value |-> 0, writes |-> 0]],
            diags |-> <<>>, typed |-> <<>>, scope |-> region]
OperandTypes == operand_types(Untyped, expr.args).types
Ttyp == IF last.call = "expr_with_ttyp" THEN last.ttyp ELSE 0
After2 == by_arguments_with_cast(Overloaded, OperandTypes)
After3 == by_return_type_with_cast(After2, Ttyp)
After4 == by_arguments_without_cast(After3, OperandTypes)
After5 == by_return_type_without_cast(After4, Ttyp)

ReturnBase(c) == base(return_type(c))
SameReturn(cands) ==
    \A i, j \in 1..Len(cands) : ReturnBase(cands[i]) = ReturnBase(cands[j])
\* the candidates whose formals have the base types of the operands as they are
ExactArguments(cands) ==
    SelectSeq(cands,
              LAMBDA c : \A i \in 1..Len(OperandTypes) :
                            match_type(OperandTypes[i], nth_base(c, i)))
ZeroPlusC == Op(1, <<MkLeaf(2, <<"Integer", 0>>), MkLeaf(3, <<"Name", CharacterId>>)>>)

\* C16: step 4 keeps the candidates that match the operands without a cast
\* when more than one candidate is left and they all return the same base
\* type, and removes none otherwise; 0 + 'c' with the overloads returning
\* integer and character has the forward type Ambiguous({integer, character}).
C16_CastDroppedOnSameReturn ==
    RootRan =>
        /\ After4 = IF Len(After3) > 1 /\ SameReturn(After3)
                       THEN ExactArguments(After3) ELSE After3
        /\ disamb.cands =
              restore_if_empty(
                  by_return_type_without_cast(
                      IF Len(After3) > 1 /\ SameReturn(After3)
                         THEN ExactArguments(After3) ELSE After3,
                      Ttyp),
                  Overloaded, OperandTypes)
        /\ (expr = ZeroPlusC /\ Overloaded = <<55, 56>> /\ Ttyp = 0) =>
              /\ disamb.st = "Ambiguous"
              /\ disamb.cands = <<55, 56>>
              /\ last.call = "expr_type" =>
                    result = [ok |-> TRUE, t |-> Ambiguous({IntegerId, CharacterId})]

\* 0 + 'c' was typed forward with the two overloads on (integer, character)
C16_Witness ==
    /\ RootRan
    /\ expr = ZeroPlusC
    /\ region = <<QueQueId, 55, 56>>
    /\ last.call = "expr_type"
    /\ After3 = <<55, 56>> /\ ExactArguments(After3) = <<>>
    /\ result = [ok |-> TRUE, t |-> Ambiguous({IntegerId, CharacterId})]

\* ---- C17
Returns(cands, typ) == \E i \in 1..Len(cands) : ReturnBase(cands[i]) = typ
\* the candidate returns an integer (real) type next to a candidate that
\* returns universal_integer (universal_real)
Shadowed(cands, c) ==
    \/ kind(ReturnBase(c)).t = "Integer" /\ Returns(cands, UniversalIntegerId)
    \/ kind(ReturnBase(c)).t = "Real" /\ Returns(cands, UniversalRealId)
MinusOne == Op(1, <<MkLeaf(2, <<"Integer", 0>>)>>)

\* C17: with more than one candidate left after steps 2-4, a target type
\* keeps the candidates whose return base type is the base type of the
\* target, and without a target type exactly the candidates returning an
\* integer (real) type next to one returning universal_integer
\* (universal_real) are dropped; the forward type of an operator applied to
\* an integer literal, with overloads on integer and universal_integer, is
\* universal_integer.
C17_UniversalShadowsConcrete ==
    (RootRan /\ Len(After4) > 1) =>
        /\ After5 = IF Ttyp # 0
                       THEN SelectSeq(After4, LAMBDA c : ReturnBase(c) = base(Ttyp))
                       ELSE SelectSeq(After4, LAMBDA c : ~Shadowed(After4, c))
        /\ disamb.cands = restore_if_empty(After5, Overloaded, OperandTypes)
        /\ (expr = MinusOne /\ Overloaded = <<27, 57>> /\ last.call = "expr_type") =>
              result = [ok |-> TRUE, t |-> Unambiguous(UniversalIntegerId)]

\* the operator on an integer literal was typed forward with its overloads on
\* integer and universal_integer
C17_Witness ==
    /\ RootRan
    /\ expr = MinusOne
    /\ Overloaded = <<27, 57>>
    /\ last.call = "expr_type"
    /\ After4 = <<27, 57>> /\ After5 = <<27>>
    /\ refs[1].value = 27
    /\ result = [ok |-> TRUE, t |-> Unambiguous(UniversalIntegerId)]

\* ---- C18
HasDiag(d) == \E k \in 1..Len(diagnostics) : diagnostics[k] = d

\* C18: when the steps leave no candidate and exactly one of the original
\* candidates matches the operands without a cast, that candidate is selected
\* whatever the target type, and a return type the target cannot take is
\* reported as a type mismatch; otherwise "Found no match" is reported.
C18_RestoreUnique ==
    (RootRan /\ After5 = <<>>) =>
        IF Len(ExactArguments(Overloaded)) = 1
           THEN /\ disamb.st = "Unambiguous"
                /\ disamb.ent = ExactArguments(Overloaded)[1]
                /\ refs[1] = [value |-> disamb.ent, writes |-> 1]
                /\ ~HasDiag(no_match(expr.pos))
                /\ (/\ last.call = "expr_with_ttyp"
                    /\ ~can_be_target_type(TRUE, return_type(disamb.ent), base(Ttyp)))
                      => HasDiag(type_mismatch(expr.pos))
           ELSE /\ disamb.st = "Unknown"
                /\ refs[1].value = 0
                /\ HasDiag(no_match(expr.pos))

\* i + i against boolean, with overloads on integer and on universal_integer
\* returning their own types: the target rules both out, the integer one is
\* restored and its return type reported
C18_Witness ==
    /\ RootRan
    /\ last = [call |-> "expr_with_ttyp", ttyp |-> BooleanId]
    /\ Overloaded = <<19, 20>>
    /\ After2 = <<19, 20>> /\ After5 = <<>>
    /\ disamb.ent = 19
    /\ HasDiag(type_mismatch(1))

\* ---- C19
\* C19: every step leaves a list of at most one candidate as it is, so a
\* single candidate of the right arity whose operands have forward types is
\* selected, "Found no match" is not reported, and each operand is typed
\* against the type of its formal.
C19_SingleCandidate ==
    RootRan =>
        /\ Len(Overloaded) <= 1 => After2 = Overloaded
        /\ Len(After2) <= 1 => After3 = After2
        /\ Len(After3) <= 1 => After4 = After3
        /\ Len(After4) <= 1 => After5 = After4
        /\ Len(After5) >= 1 => disamb.cands = After5
        /\ Len(Overloaded) = 1 =>
              /\ disamb.st = "Unambiguous" /\ disamb.ent = Overloaded[1]
              /\ refs[1] = [value |-> Overloaded[1], writes |-> 1]
              /\ ~HasDiag(no_match(expr.pos))
              /\ \A i \in 1..Len(expr.args) :
                    \E k \in 1..Len(typed) :
                       typed[k] = [pos |-> expr.args[i].pos,
                                   ttyp |-> type_mark(arena, formals(Overloaded[1])[i])]

\* 0 + 'c' with the overload on two integers alone: it was selected and the
\* character operand reported against integer
C19_Witness ==
    /\ RootRan
    /\ expr = ZeroPlusC
    /\ Overloaded = <<19>>
    /\ disamb.ent = 19
    /\ HasDiag(type_mismatch(3))
    /\ ~HasDiag(no_match(1))

\* ---- C20
\* the forward type of the expression before any call
ForwardType == expr_pos_type(Untyped, expr)
\* boolean_expr was the first call and found the expression ambiguous
BooleanOfAmbiguous ==
    /\ expr # <<>> /\ calls = 1 /\ last # <<>> /\ last.call = "boolean_expr"
    /\ ForwardType.ok /\ ForwardType.t.tag = "Ambiguous"
ImplicitBools == implicit_bool_types(region) \cap ForwardType.t.types
RetypedAgainst(typ) == typed # <<>> /\ typed[1] = [pos |-> expr.pos, ttyp |-> typ]

\* C20: boolean_expr on an expression of forward type Ambiguous(S): with
\* boolean in S the expression is typed against boolean; otherwise, with B
\* the types of S that have an implicit "??", B = {T} has the expression typed
\* against T, a larger B is reported as an ambiguous use of "??" and an empty
\* B as an expression that cannot be disambiguated to boolean.
C20_AsStated ==
    BooleanOfAmbiguous =>
        IF BooleanId \in ForwardType.t.types THEN RetypedAgainst(BooleanId)
        ELSE IF Cardinality(ImplicitBools) = 1
            THEN /\ \A T \in ImplicitBools : RetypedAgainst(T)
                 /\ ~\E k \in 1..Len(diagnostics) :
                        diagnostics[k].msg \in
                           {"Ambiguous use of implicit boolean conversion ??",
                            "Cannot disambiguate expression to boolean"}
        ELSE IF Cardinality(ImplicitBools) > 1
            THEN HasDiag(Diag("Ambiguous use of implicit boolean conversion ??",
                              expr.pos, ImplicitBools))
        ELSE HasDiag(Diag("Cannot disambiguate expression to boolean",
                          expr.pos, ForwardType.t.types))


\* ---- C21
IsBody(j) == declarations[j].d = "Type" /\ declarations[j].def = "ProtectedBody"
\* the protected types of the scope
ProtectedTypes ==
    { e \in { region[k] : k \in 1..Len(region) } :
        arena[e].kind.k = "Type" /\ arena[e].kind.t = "Protected" }
\* the bodies of protected type e whose analysis has returned without a fatal error
BodiesOf(e) ==
    { j \in { visited[k] : k \in 1..Len(visited) } :
        /\ IsBody(j) /\ refs[j].value = e
        /\ ~(status = "fatal" /\ j = visited[Len(visited)]) }
Latest(S) == CHOOSE j \in S : \A k \in S : k <= j
\* a body of protected type e is analysed in this step
BodyStep(e) ==
    /\ status = "running" /\ IsBody(idx)
    /\ visited' = Append(visited, idx)
    /\ arena[e].des = declarations[idx].name

\* the diagnostics the step added at the position of the body itself
BodyDiags ==
    SelectSeq(SubSeq(diagnostics', Len(diagnostics) + 1, Len(diagnostics')),
              LAMBDA d : d.pos = idx)

\* C21 as stated: the body-position slot of a protected type is empty until
\* its first body is analysed and then holds the position of the latest body
\* analysed without a fatal error; the first body emits no duplicate
\* diagnostic at its position, each later one exactly one
\* duplicate-declaration diagnostic related to the body just before it, after
\* the diagnostics of its declarative part, and a body whose declarative part
\* fails fatally leaves the slot as it was and emits nothing at its position.
C21_AsStated ==
    /\ [](\A e \in ProtectedTypes :
            arena[e].kind.body_pos =
                IF BodiesOf(e) = {} THEN 0 ELSE Latest(BodiesOf(e)))
    /\ [][ \A e \in ProtectedTypes : BodyStep(e) =>
             IF status' = "fatal"
                THEN /\ arena'[e].kind.body_pos = arena[e].kind.body_pos
                     /\ BodyDiags = <<>>
             ELSE /\ arena'[e].kind.body_pos = idx
                  /\ IF BodiesOf(e) = {} THEN BodyDiags = <<>>
                     ELSE /\ BodyDiags = << Diag("Duplicate declaration", idx,
                                                 Latest(BodiesOf(e))) >>
                          /\ diagnostics'[Len(diagnostics')] = BodyDiags[1] ]_vars

\* the bodies of e analysed since the declaration that defined e last: a
\* full declaration of an incomplete type redefines the entity in place
BodiesSince(e) == { j \in BodiesOf(e) : j > arena[e].pos }

\* C21, counting the bodies from the declaration that defined the entity of
\* the type last: the slot is empty until the first such body is analysed and
\* then holds the position of the latest one analysed without a fatal error;
\* the first emits no duplicate diagnostic at its position, each later one
\* exactly one, related to the body just before it, and a body whose
\* declarative part fails fatally leaves the slot as it was.
C21_BodySlot ==
    /\ [](\A e \in ProtectedTypes :
            arena[e].kind.body_pos =
                IF BodiesSince(e) = {} THEN 0 ELSE Latest(BodiesSince(e)))
    /\ [][ \A e \in ProtectedTypes : BodyStep(e) =>
             IF status' = "fatal"
                THEN /\ arena'[e].kind.body_pos = arena[e].kind.body_pos
                     /\ BodyDiags = <<>>
             ELSE /\ arena'[e].kind.body_pos = idx
                  /\ IF BodiesSince(e) = {} THEN BodyDiags = <<>>
                     ELSE /\ BodyDiags = << Diag("Duplicate declaration", idx,
                                                 Latest(BodiesSince(e))) >>
                          /\ diagnostics'[Len(diagnostics')] = BodyDiags[1] ]_vars

\* an incomplete type u was completed as a protected type, a body of u was
\* analysed, and a second full declaration of u emptied the slot of the
\* same entity
C21_Witness ==
    /\ status = "ok"
    /\ \E e \in ProtectedTypes :
          /\ arena[e].des = "u"
          /\ BodiesOf(e) # {}
          /\ arena[e].pos > Latest(BodiesOf(e))
          /\ arena[e].kind.body_pos = 0

\* ---- C22
\* one call of instantiate for the member u, as the loop of
\* generic_package_instance makes it
InstantiateStep == status = "instantiating" /\ inst_idx' = inst_idx + 1
Uninst == members[inst_idx]
NewIds == (Len(arena) + 1)..Len(arena')
\* the call failed: the loop reported it
CallFailed == Len(diagnostics') = Len(diagnostics) + 1
\* the entity the call returned: the one handed to the region of the instance
Returned == events'[Len(events')].ent
\* the adds to the region of the instance the step made
NewAdds ==
    { k \in (Len(events) + 1)..Len(events') :
        events'[k].ev = "add" /\ events'[k].region = 1 }
KindFails(u) == ~map_kind(CurrentInst, mapping, arena[u].kind).ok
ChildFails(u) ==
    \E k \in 1..Len(arena[u].implicits) :
        ~instantiate(CurrentInst, mapping, arena[u].implicits[k]).ok

\* C22: instantiate(mapping, u) fails exactly when map_kind fails on u's kind
\* or the instantiation of one of u's implicit children fails, and then it
\* returns no entity; otherwise it returns an entity allocated by the call,
\* related to u as instance-of, with u's designator and declaration position,
\* kind map_kind(mapping, u.kind), and as implicit children the instances of
\* u's implicit children, one per child, allocated by the call, in order.
C22_Instantiate ==
    [][ InstantiateStep =>
          /\ CallFailed <=> (KindFails(Uninst) \/ ChildFails(Uninst))
          /\ CallFailed => (NewAdds = {} /\ region' = region)
          /\ ~CallFailed =>
                LET inst == Returned
                    children == arena'[inst].implicits
                IN  /\ NewAdds = {Len(events')}
                    /\ inst \in NewIds
                    /\ arena'[inst].rel = "InstanceOf" /\ arena'[inst].of = Uninst
                    /\ arena'[inst].des = arena[Uninst].des
                    /\ arena'[inst].pos = arena[Uninst].pos
                    /\ arena'[inst].kind
                          = map_kind(CurrentInst, mapping, arena[Uninst].kind).v
                    /\ Len(children) = Len(arena[Uninst].implicits)
                    /\ \A k \in 1..Len(children) :
                          /\ children[k] \in NewIds /\ children[k] > inst
                          /\ arena'[children[k]].rel = "InstanceOf"
                          /\ arena'[children[k]].of = arena[Uninst].implicits[k]
                          /\ \A j \in 1..(k - 1) : children[j] < children[k]
                    /\ \A e \in 1..Len(arena) : arena'[e] = arena[e] ]_vars

\* with u_t bound to an entity that is no type, arr2_t was instantiated with
\* its two implicit operators, in order, and file_t was not: its second
\* implicit, read, has a formal of type u_t
C22_Witness ==
    /\ status = "instantiated"
    /\ members = <<62, 65>>
    /\ mapping[GenU] = 35 /\ mapping[GenV] = NaturalId
    /\ Len(region) = 1
    /\ arena[region[1]].of = 62
    /\ Len(arena[region[1]].implicits) = 2
    /\ arena[arena[region[1]].implicits[1]].of = 60
    /\ arena[arena[region[1]].implicits[2]].of = 61
    /\ Len(diagnostics) = 1
    /\ \E e \in (Len(ImplArena) + 1)..Len(arena) :
          arena[e].of = 65 /\ Len(arena[e].implicits) = 1

\* ---- C23
\* the instances of the uninstantiated entity u made so far at the top of the
\* instance (not as a formal, element or implicit of another instance)
TopInstances(u) ==
    { events[k].ent : k \in { k \in 1..Len(events) :
        events[k].ev = "add" /\ events[k].region = 1 /\ arena[events[k].ent].of = u } }
InRegion(e) == \E j \in 1..Len(region) : region[j] = e
SameKey(a, b) ==
    /\ arena[a].des = arena[b].des
    /\ SignatureKey(arena, a) = SignatureKey(arena, b)

\* the region of the instance and the regions map_region has made so far
InstanceRegions == {region} \cup { into_region(events, r) : r \in 1..NumRegions(events) }

\* C23: while the members are re-inserted into the instance region and into
\* the regions map_region makes, no duplicate-declaration diagnostic is
\* emitted, every rejected add went to the discarding sink, each of these
\* regions holds one entity per designator and signature key, and of the
\* implicit "=" of two type generics whose instances have the same signature
\* key only the first is in the region.
C23_CollisionsDiscarded ==
    status \in {"instantiating", "instantiated"} =>
        /\ \A d \in 1..Len(diagnostics) : diagnostics[d].msg # "Duplicate declaration"
        /\ \A k \in 1..Len(events) :
              (events[k].ev = "add" /\ ~events[k].ok) => events[k].sink = "null"
        /\ \A reg \in InstanceRegions : \A j, k \in 1..Len(reg) :
              (j # k /\ arena[reg[j]].des = arena[reg[k]].des) =>
                  /\ IsOverloaded(arena, reg[j]) /\ IsOverloaded(arena, reg[k])
                  /\ ~SameKey(reg[j], reg[k])
        /\ \A a \in TopInstances(33), b \in TopInstances(34) :
              /\ InRegion(a)
              /\ InRegion(b) <=> ~SameKey(a, b)

\* u_t and v_t are both mapped to integer: the "=" of v_t collided with the
\* "=" of u_t and was dropped without a diagnostic, and the member after it,
\* the protected type, was instantiated: map_region took the two p of its
\* region together, before f, and the second p collided with the first.
C23_Witness ==
    /\ status = "instantiated"
    /\ members = <<33, 34, 46>>
    /\ GenV \in DOMAIN mapping /\ mapping[GenU] = IntegerId /\ mapping[GenV] = IntegerId
    /\ Len(region) = 2
    /\ arena[region[1]].of = 33 /\ arena[region[2]].of = 46
    /\ \E k \in 1..Len(events) :
          /\ events[k].ev = "add" /\ events[k].region = 1 /\ ~events[k].ok
          /\ arena[events[k].ent].of = 34
    /\ \E i, j, k \in 1..Len(events) :
          /\ i < j /\ j < k
          /\ events[i].ev = "add" /\ events[i].region = 2 /\ events[i].ok
          /\ arena[events[i].ent].of = 44
          /\ events[j].ev = "add" /\ events[j].region = 2 /\ ~events[j].ok
          /\ arena[events[j].ent].of = 45
          /\ events[k].ev = "add" /\ events[k].region = 2 /\ events[k].ok
          /\ arena[events[k].ent].of = 37
    /\ Len(arena[region[2]].kind.region) = 2
    /\ diagnostics = <<>>

\* ---- C24
\* the generic map of a package instantiation whose name resolved, once
\* package_generic_map has returned
MapBuilt == unit # <<>> /\ unit.name = "ok" /\ status # "resolving"
Assoc(k) == unit.generic_map[k]
PositionalAt(k) == Assoc(k).formal = ""
\* the generic the k-th association is for, 0 when its formal names none
FormalOf(k) ==
    IF PositionalAt(k) THEN (IF k <= 3 THEN <<GenU, GenV, 68>>[k] ELSE 0)
    ELSE IF Assoc(k).formal = "u_t" THEN GenU
    ELSE IF Assoc(k).formal = "g_c" THEN 68
    ELSE 0
TypeGeneric(k) == FormalOf(k) \in {GenU, GenV}
IsOpen(k) == Assoc(k).actual.form = "Open"
\* the association binds a type generic to a type
Binds(k) ==
    TypeGeneric(k) /\ Assoc(k).actual.form = "Name" /\ Assoc(k).actual.typ # 0
\* the actual of a type generic is a name that denotes no type: type_name fails
Unresolved(k) ==
    TypeGeneric(k) /\ Assoc(k).actual.form = "Name" /\ Assoc(k).actual.typ = 0
\* the diagnostics at the k-th association
DiagsAt(k) ==
    { diagnostics[d] : d \in { d \in 1..Len(diagnostics) :
        diagnostics[d].pos \in {FormalPos(k), ActualPos(k)} } }
\* what the k-th association is to leave in the sink when it is examined
Expected(k) ==
    IF FormalOf(k) = 0
        THEN IF PositionalAt(k)
                THEN DiagsAt(k) = { Diag("Extra actual for generic map", ActualPos(k), 0) }
                ELSE /\ Cardinality(DiagsAt(k)) = 1
                     /\ \A d \in DiagsAt(k) : d.pos = FormalPos(k)
    ELSE IF IsOpen(k) \/ Binds(k) THEN DiagsAt(k) = {}
    ELSE IF Unresolved(k)
        THEN /\ Cardinality(DiagsAt(k)) = 1
             /\ \A d \in DiagsAt(k) : d.pos = ActualPos(k)
    ELSE IF TypeGeneric(k)
        THEN DiagsAt(k) = { Diag("Cannot map expression to type generic", ActualPos(k), 0) }
    ELSE \A d \in DiagsAt(k) : d.pos = ActualPos(k)
\* the bindings of the associations 1..n: the last one of a generic stands
Bound(n) == { FormalOf(k) : k \in { k \in 1..n : Binds(k) } }
Bindings(n) ==
    [g \in Bound(n) |->
        Assoc(CHOOSE k \in 1..n :
                /\ Binds(k) /\ FormalOf(k) = g
                /\ \A j \in 1..n : (Binds(j) /\ FormalOf(j) = g) => j <= k).actual.typ]
Stops == { k \in 1..Len(unit.generic_map) : Unresolved(k) }
Examined ==
    IF Stops = {} THEN Len(unit.generic_map)
    ELSE CHOOSE k \in Stops : \A j \in Stops : k <= j

\* C24 as stated: every association of the generic map is examined and
\* leaves its diagnostic or its binding, whatever the associations before it.
C24_AsStated ==
    MapBuilt =>
        /\ \A k \in 1..Len(unit.generic_map) : Unresolved(k) \/ Expected(k)
        /\ \A g \in Bound(Len(unit.generic_map)) :
              g \in DOMAIN mapping /\ mapping[g] = Bindings(Len(unit.generic_map))[g]
        /\ DOMAIN mapping \subseteq {GenU, GenV}

\* C24 amended: the associations are examined in order up to the first one
\* whose type-generic actual is a name that denotes no type; each examined
\* association leaves its diagnostic (formal not a simple name or no generic:
\* at the formal; no nth generic: "Extra actual for generic map"; expression
\* for a type generic: "Cannot map expression to type generic") or nothing
\* (open actual, type bound).  When every association was examined the map
\* holds exactly the bindings of the type generics, the last binding of a
\* generic standing; otherwise the function fails, no map is returned, the
\* associations after the failing one leave nothing and the instance is not
\* built.
C24_GenericMap ==
    MapBuilt =>
        /\ \A k \in 1..Examined : Expected(k)
        /\ \A k \in (Examined + 1)..Len(unit.generic_map) : DiagsAt(k) = {}
        /\ IF Stops = {}
              THEN /\ mapping = Bindings(Len(unit.generic_map))
                   /\ status \in {"instantiating", "instantiated"}
              ELSE /\ mapping = <<>>
                   /\ status = "unknown"
                   /\ region = <<>>

\* (integer, integer, 0, zz => integer, integer): the three generics were
\* associated by position, the fourth association was skipped with a
\* diagnostic at its formal and the fifth, for which there is no generic,
\* with "Extra actual for generic map" at its actual
C24_Witness ==
    /\ MapBuilt
    /\ Len(unit.generic_map) = 5
    /\ \A k \in 1..3 : PositionalAt(k)
    /\ Binds(1) /\ Binds(2)
    /\ Assoc(4).formal = "zz" /\ PositionalAt(5) /\ Assoc(5).actual.form = "Name"
    /\ DOMAIN mapping = {GenU, GenV} /\ mapping[GenV] = IntegerId
    /\ Cardinality(DiagsAt(4)) = 1
    /\ DiagsAt(5) = { Diag("Extra actual for generic map", ActualPos(5), 0) }
    /\ Len(diagnostics) = 2
    /\ status = "instantiated"

\* ---- C25
\* an element association was analysed against the array type last.ttyp
ElemAnalysed ==
    /\ expr # <<>> /\ expr.e \in {"Positional", "Named"}
    /\ calls = 1 /\ last.call = "analyze_1d_array_assoc_elem"
ArrayType == last.ttyp
ElemType == arena[last.ttyp].kind.elem_type
\* the target types the value itself was typed against
ValueTyped ==
    { typed[k].ttyp : k \in { k \in 1..Len(typed) : typed[k].pos = expr.value.pos } }
\* the forward type of the value
ValueType ==
    expr_pos_type([refs |-> [p \in DOMAIN refs |-> [value |-> 0, writes |-> 0]], diags |-> <<>>,
                   typed |-> <<>>, scope |-> region], expr.value)
AllRanges ==
    \A k \in 1..Len(expr.choices) : expr.choices[k].c \in {"RangeExpr", "DiscreteRange"}
\* no choice ended the call: neither an expression whose analysis failed nor
\* a discrete range whose analysis returned its error
ChoicesAnalysed ==
    \A k \in 1..Len(expr.choices) :
        /\ expr.choices[k].c # "Error"
        /\ ~(expr.choices[k].c = "DiscreteRange" /\ expr.choices[k].res = "fatal")

\* C25 as stated: when the choices were analysed and the value has a forward
\* type, the value is typed against the array type if the association is
\* positional or all of its choices are ranges and the forward type is
\* possible for the array type but not for the element type, and against the
\* element type in every other case.
C25_AsStated ==
    (ElemAnalysed /\ ChoicesAnalysed /\ ValueType.ok) =>
        ValueTyped =
            IF /\ AllRanges
               /\ is_possible(TRUE, ValueType.t, base(ArrayType))
               /\ ~is_possible(TRUE, ValueType.t, base(ElemType))
               THEN {ArrayType}
               ELSE {ElemType}

\* ------------------------------------------------------------ C26, C27
\* One call of the Alias branch of analyze_declaration that did not end in a
\* fatal error, the name it resolved, the entity defined for the alias (0 when
\* analyze_alias_declaration returned no entity) and what the call reported.
AliasStep ==
    /\ status = "running"
    /\ declarations[idx].d = "Alias"
    /\ status' # "fatal"
    /\ visited' = Append(visited, idx)
AliasName     == name_resolve(Current, declarations[idx].target)
AliasEnt      == refs'[idx].value
AliasReported ==
    { diagnostics'[k] : k \in (Len(diagnostics) + 1)..Len(diagnostics') }
AliasAdds     ==
    { k \in (Len(events) + 1)..Len(events') : events'[k].ev = "add" }
AliasKey      ==
    [params |-> <<>>, ret |-> base_type(arena, declarations[idx].signature.ret)]
AliasMatches  ==
    { e \in AliasName.ents : SignatureKey(arena, e) = AliasKey }
Signed        == declarations[idx].signature.res # "none"
ByClass ==
    /\ AliasName.cls \in {"Library", "Design", "Expression"} =>
          /\ cannot_be_aliased(AliasName.cls, idx) \in AliasReported
          /\ AliasEnt = 0
    /\ (AliasName.cls = "Overloaded" /\ ~Signed) =>
          /\ signature_required(idx) \in AliasReported
          /\ AliasEnt = 0
    /\ (AliasName.cls = "Overloaded" /\ declarations[idx].signature.res = "ok") =>
          IF AliasMatches = {}
              THEN /\ no_overloaded_with_signature(idx, AliasName.ents) \in AliasReported
                   /\ AliasEnt = 0
              ELSE /\ AliasEnt # 0
                   /\ arena'[AliasEnt].kind.k = "Overloaded"
                   /\ arena'[AliasEnt].kind.o = "Alias"
                   /\ AliasMatches = {arena'[AliasEnt].kind.aliased}
    /\ AliasName.cls = "Type" =>
          /\ AliasEnt # 0
          /\ arena'[AliasEnt].kind = TypeAliasKind(CHOOSE e \in AliasName.ents : TRUE)
          /\ Signed => should_not_have_signature(idx) \in AliasReported
    /\ AliasEnt = 0 => (AliasAdds = {} /\ region' = region)
ObjectAliased ==
    /\ AliasEnt # 0
    /\ arena'[AliasEnt].kind.k =
          IF AliasName.obase = "ExternalName" THEN "ExternalAlias" ELSE "ObjectAlias"
    /\ AliasName.obase # "ExternalName" =>
          AliasName.ents = {arena'[AliasEnt].kind.base_object}
    /\ Signed => should_not_have_signature(idx) \in AliasReported

\* C26 as stated: by the class of the resolved name, a library, design unit
\* or expression is reported as not aliasable and gives no entity; an
\* overloaded name gives "Signature required" without a signature, "Could not
\* find declaration" for a key no member has, and the alias of exactly the
\* member with the key otherwise; every object name gives an object alias or
\* external alias and every type name a type alias, also when a signature was
\* supplied and reported; and nothing is added to the scope when no entity
\* is returned.
C26_AsStated ==
    [][AliasStep => (ByClass /\ (AliasName.cls = "ObjectName" => ObjectAliased))]_vars

\* The cases of C26 other than the object name whose base is a deferred constant.
C26_OtherClasses ==
    [][AliasStep =>
          /\ ByClass
          /\ (AliasName.cls = "ObjectName" /\ AliasName.obase # "DeferredConstant")
                => ObjectAliased]_vars

\* C27 as stated: every alias declaration for which no entity is defined is
\* accompanied by at least one diagnostic of that call.
C27_AsStated ==
    [][(AliasStep /\ AliasEnt = 0) => AliasReported # {}]_vars

\* The silent failures are those of the Final class and of the deferred
\* constant aliased without a signature.
C27_SilentOnlyThere ==
    [][(AliasStep /\ AliasEnt = 0 /\ AliasReported = {}) =>
          \/ AliasName.cls = "Final"
          \/ AliasName.cls = "ObjectName" /\ AliasName.obase = "DeferredConstant" /\ ~Signed]_vars

\* ------------------------------------------------------------------ C28
\* One call of operand_types on the operands of expr; the operands typed one
\* after the other into an empty buffer, and the first of them that fails.
OperandsStep ==
    /\ status = "typing"
    /\ calls' = calls + 1
    /\ last'.call = "operand_types"
RECURSIVE TypedThrough(_)
TypedThrough(k) ==
    IF k = 0 THEN Known([CurrentOp EXCEPT !.diags = <<>>], <<>>)
    ELSE expr_pos_type(TypedThrough(k - 1).s, expr.args[k])
Failing ==
    { k \in 1..Len(expr.args) :
        /\ ~TypedThrough(k).ok
        /\ \A j \in 1..(k - 1) : TypedThrough(j).ok }

\* C28: operand_types appends the buffered diagnostics of the operands typed
\* so far to the sink at the first operand whose type is unknown, types no
\* operand after it and returns Unknown; when every operand is typed the
\* sink is left as it was and the types of all operands are returned.
C28_BufferForwardedOnFailure ==
    [][OperandsStep =>
          IF Failing = {}
              THEN /\ diagnostics' = diagnostics
                   /\ result'.ok
                   /\ result'.t = [k \in 1..Len(expr.args) |-> TypedThrough(k).t]
              ELSE /\ diagnostics' =
                          diagnostics \o TypedThrough(CHOOSE k \in Failing : TRUE).s.diags
                   /\ ~result'.ok
                   /\ refs' = TypedThrough(CHOOSE k \in Failing : TRUE).s.refs
                   /\ typed' = TypedThrough(CHOOSE k \in Failing : TRUE).s.typed]_vars

\* operand_types returned the types of all operands and left the sink empty
\* although typing the operands had put diagnostics into the buffer.
C28_Witness ==
    /\ calls = 1
    /\ last.call = "operand_types"
    /\ result.ok
    /\ diagnostics = <<>>
    /\ operand_loop([refs  |-> [p \in DOMAIN refs |-> [value |-> 0, writes |-> 0]],
                     diags |-> <<>>, typed |-> <<>>, scope |-> region],
                    expr.args, 1, <<>>).s.diags # <<>>

\* ------------------------------------------------------------------ C29
\* The instances in the region of the package instance, the member each was
\* made from, and a type reference as instantiate has to leave it: the actual
\* for a generic the map binds, the same entity otherwise.
Copies      == { e \in 1..Len(arena) : arena[e].rel = "InstanceOf" }
TypeGenericIds == { Generics[g] : g \in { h \in 1..Len(Generics) : IsType(ImplArena, Generics[h]) } }
Denotes(typ) == IF typ \in DOMAIN mapping THEN mapping[typ] ELSE typ
SameSignature(inst, uninst) ==
    /\ Len(arena[inst].kind.formals) = Len(arena[uninst].kind.formals)
    /\ \A n \in 1..Len(arena[uninst].kind.formals) :
          type_mark(arena, arena[inst].kind.formals[n]) =
             Denotes(type_mark(arena, arena[uninst].kind.formals[n]))
    /\ arena[inst].kind.ret = Denotes(arena[uninst].kind.ret)

\* C29: the generic map changes only in the step that builds it, its keys
\* are type generics of the package, and every type an instantiated
\* subprogram refers to is the actual of a bound generic or the very entity
\* the uninstantiated subprogram refers to: a type declared in the package
\* is referred to as the uninstantiated type, not as its copy in the instance.
C29_MappingFixed ==
    /\ [][mapping' # mapping => status = "resolving"]_vars
    /\ [](DOMAIN mapping \subseteq TypeGenericIds)
    /\ [](\A e \in Copies :
             IsOverloaded(arena, e) =>
                /\ SameSignature(e, arena[e].of)
                /\ \A n \in 1..Len(arena[e].kind.formals) :
                      type_mark(arena, arena[e].kind.formals[n]) \notin Copies)

\* Under a map that binds u_t, arr_t, the protected type and g were all
\* instantiated: map_region made the region of the protected type, whose f
\* returns the actual of u_t, and the formal of the instance of g is of the
\* uninstantiated arr_t although the instance has its own arr_t.
C29_Witness ==
    /\ status = "instantiated"
    /\ GenU \in DOMAIN mapping
    /\ \E c \in Copies : arena[c].of = 38 /\ c \in { region[j] : j \in 1..Len(region) }
    /\ \E c \in Copies :
          /\ arena[c].of = 46 /\ c \in { region[j] : j \in 1..Len(region) }
          /\ \E f \in Copies :
                /\ arena[f].of = 37
                /\ \E j \in 1..Len(arena[c].kind.region) : arena[c].kind.region[j] = f
                /\ arena[f].kind.ret = mapping[GenU]
    /\ \E e \in Copies :
          /\ arena[e].of = 53
          /\ e \in { region[j] : j \in 1..Len(region) }
          /\ type_mark(arena, arena[e].kind.formals[1]) = 38

\* ------------------------------------------------------------------ C30
\* The later non-incomplete type declarations of n that are protected type
\* bodies, and the declarations analysed so far.
LaterBodies(i, n) ==
    { j \in LaterFull(i, n) : declarations[j].def = "ProtectedBody" }
Analysed == { visited[k] : k \in 1..Len(visited) }
Reported(d) == \E k \in 1..Len(diagnostics) : diagnostics[k] = d

\* C30: when the only non-incomplete type declarations of n after the first
\* incomplete declaration of n are protected type bodies, no "Missing full
\* type declaration" is reported for it, the incomplete entity carries the
\* position of the first body and stays Type::Incomplete, and, the scope
\* having accepted the entity, every body analysed is reported as not a
\* protected type and refers to no entity.
C30_BodyCompletesIncomplete ==
    \A n \in Names :
        LET e == incomplete_types[n].ent
            i == incomplete_types[n].pos
        IN  (e # 0 /\ LaterFull(i, n) # {} /\ LaterFull(i, n) = LaterBodies(i, n)) =>
               /\ ~Reported(Diag("Missing full type declaration of incomplete type", i, i))
               /\ arena[e].kind = IncompleteKind
               /\ arena[e].pos = CHOOSE j \in LaterBodies(i, n) :
                                    \A k \in LaterBodies(i, n) : j <= k
               /\ (\E k \in 1..Len(region) : region[k] = e) =>
                     \A j \in LaterBodies(i, n) \cap Analysed :
                        /\ Reported(Diag("is not a protected type", j, 0))
                        /\ refs[j].value = 0

\* `type t;` followed by a protected type body of t and by no other type
\* declaration of t, the declarative part analysed to its end.
C30_Witness ==
    /\ status = "ok"
    /\ incomplete_types["t"].ent # 0
    /\ \E k \in 1..Len(region) : region[k] = incomplete_types["t"].ent
    /\ LaterBodies(incomplete_types["t"].pos, "t") # {}
    /\ LaterFull(incomplete_types["t"].pos, "t") = LaterBodies(incomplete_types["t"].pos, "t")
    /\ arena[incomplete_types["t"].ent].kind = IncompleteKind
    /\ arena[incomplete_types["t"].ent].pos > incomplete_types["t"].pos
    /\ Reported(Diag("is not a protected type", arena[incomplete_types["t"].ent].pos, 0))
    /\ ~Reported(Diag("Missing full type declaration of incomplete type",
                      incomplete_types["t"].pos, incomplete_types["t"].pos))
====
